---- MODULE Spec2Model ----
(***************************************************************************)
(* TSBot: the Supervisor workflow (src/src/agents/supervisor.py), the SQL  *)
(* engine and its markdown table (src/src/agents/sql_agent.py), the        *)
(* semantic cache (src/src/agents/components/cache.py), the cache steps of *)
(* the RAG engine (src/src/agents/rag_agent.py) and the deduplication of   *)
(* chunks (src/src/agents/components/bm25.py) as state machines.           *)
(*                                                                         *)
(* Python values are modelled as tagged records, so that None, "", [] and  *)
(* {} are distinct values with Python's truthiness:                        *)
(*   None, Str(s), List(q), Dict(f)   (f a record: the keys present).      *)
(* Similarities are integers in percent (0.85 is 85).                      *)
(***************************************************************************)
EXTENDS Integers, Sequences, FiniteSets, TLC

VARIABLES
    pc,             \* supervisor: "idle", a graph node, "END" or "raised"
    state,          \* supervisor: the ConversationState of the current run
    exc,            \* supervisor: the exception that left graph.ainvoke, or None
    result,         \* supervisor: what SupervisorAgent.process returned, or None
    visited,        \* history: the nodes executed in the current run, in order
    llm_calls,      \* history: the LLM prompts issued in the current run
    router_result,  \* history: intent and confidence router.route returned
    failed,         \* history: the steps that failed in the current run
    sql_pc,         \* SQL engine: "idle", "loop", "validate", "execute", "answer"
    entities,       \* SQL engine: what _extract_entities returned
    attempt,        \* SQL engine: the loop variable of process_query
    error_history,  \* SQL engine: the messages of the failed attempts
    error_context,  \* SQL engine: the messages put into the last prompt of
                    \*   _generate_sql
    sql,            \* SQL engine: the local `sql` of process_query
    results,        \* SQL engine: the rows of the current attempt, or None
    db_sent,        \* SQL engine: the statement given to db.fetch_all in the
                    \*   current attempt, or None
    sql_return,     \* SQL engine: what process_query returned, or None
    table_in,       \* table: the rows given to _build_markdown_table
    table_out,      \* table: what _build_markdown_table returned, or None
    table_first,    \* history: what it returned for the first ordering
    cache,          \* cache: self._cache, the entries in insertion order
    now,            \* cache: the time datetime.now() returns, in hours
    added,          \* history: the entries given to add, in order
    lookup_arg,     \* cache: the embedding of the last lookup, or None
    current_time,   \* cache: current_time of the last lookup
    best_match,     \* cache: best_match of the last lookup
    lookup_ret,     \* cache: what the last lookup returned
    rag_pc,         \* RAG engine: "idle", "search", "rerank" or "generate"
    rag_query,      \* RAG engine: the query of the current call
    rag_called,     \* history: the time of the current call
    rag_candidates, \* RAG engine: the local `candidates` of process_query
    rag_merged,     \* RAG engine: the local `merged` of process_query
    rag_steps,      \* history: the steps the current call has performed
    rag_log,        \* history: the finished calls of process_query, in order
    dedup_in,       \* dedup: the chunks given to deduplicate_chunks
    dedup_out,      \* dedup: what deduplicate_chunks returned, or None
    merge_in,       \* merging: the reranked chunks given to merge_chunks_smart
    merge_intent,   \* merging: the intent of the query
    merge_out,      \* merging: merged and the sources made from it, or None
    store_in,       \* store: the chunks of the JSON file
    store_chunks,   \* store: _store["chunks"]
    store_chunk_map,\* store: _store["chunk_map"]
    store_loaded,   \* store: _store["loaded"]
    store_exc,      \* store: the exception load_from_json raised, or None
    store_pc,       \* store: "start" before load_from_json, "done" after it
    rrf_lists,      \* fusion: the ranked lists given to reciprocal_rank_fusion
    rrf_k,          \* fusion: the k given to it, or None
    rrf_out,        \* fusion: the fused list, or None
    chat_pc,        \* chat: where the handler of each request stands
    chat_arrived,   \* chat: the requests in the order of their arrival
    chat_rows,      \* chat: the rows of chat_history in the order of their ids
    chat_next_id,   \* chat: the next id of the table
    chat_result,    \* chat: what supervisor.process returned to each request
    chat_reply,     \* chat: what each caller received, or None
    chat_log,       \* chat: the records of logger.error
    session_messages, \* session: the channel "messages" kept for the thread
    session_query,  \* session: current_query of the run
    session_before, \* session: the channel when process was called
    session_history,\* session: what get_history returned, or None
    rag_overdue,    \* RAG: the call and stage whose deadline has passed, or None
    khoi_query,     \* entities: the words of the query given to _extract_entities
    khoi_entities,  \* entities: the dict _extract_entities built, or None
    val_sql,        \* validation: the SQL string given to _validate_sql, or None
    val_grader,     \* validation: how the grader call ended
    val_out,        \* validation: what _validate_sql returned, or None
    nav_built,      \* navigation: the chunk map when the build finished
    nav_map,        \* navigation: the chunk map of the process
    nav_pc,         \* navigation: "idle", the loop that runs, or "done"
    nav_chunk,      \* navigation: the id of the chunk the request reached
    nav_other,      \* navigation: the id of the chunk tested as its ancestor
    nav_current,    \* navigation: current of the walk that runs
    nav_parents,    \* navigation: parents of find_parent_chunks
    nav_steps,      \* navigation: the passes made of each loop
    nav_found,      \* navigation: what is_ancestor returned, or None
    nav_queue,      \* navigation: queue of the BFS
    nav_visited,    \* navigation: visited of the BFS
    nav_descendants,\* navigation: descendants of the BFS
    nav_enriched,   \* navigation: what enrich_with_all_siblings returned, or None
    mem_store,      \* memory: the channel "messages" kept for each thread_id
    mem_run,        \* memory: the run of each session: its node and messages, or None
    mem_seen,       \* memory: the history the planner was last shown in each session
    mem_history     \* memory: what get_history last returned for each session

supVars == <<pc, state, exc, result, visited, llm_calls, router_result, failed>>

sqlVars ==
    <<sql_pc, entities, attempt, error_history, error_context, sql, results,
      db_sent, sql_return>>

tblVars == <<table_in, table_out, table_first>>

cacheVars ==
    <<cache, now, added, lookup_arg, current_time, best_match, lookup_ret>>

ragVars ==
    <<rag_pc, rag_query, rag_called, rag_candidates, rag_merged, rag_steps,
      rag_log>>

dedupVars == <<dedup_in, dedup_out>>

mergeVars == <<merge_in, merge_intent, merge_out>>

\* the components modelled after deduplication
storeVars == <<store_in, store_chunks, store_chunk_map, store_loaded, store_exc, store_pc>>
rrfVars == <<rrf_lists, rrf_k, rrf_out>>
chatVars == <<chat_pc, chat_arrived, chat_rows, chat_next_id, chat_result, chat_reply, chat_log>>
sessionVars == <<session_messages, session_query, session_before, session_history>>
deadlineVars == <<rag_overdue>>
khoiVars == <<khoi_query, khoi_entities>>
validateVars == <<val_sql, val_grader, val_out>>
navVars ==
    <<nav_built, nav_map, nav_pc, nav_chunk, nav_other, nav_current, nav_parents,
      nav_steps, nav_found, nav_queue, nav_visited, nav_descendants, nav_enriched>>
memVars == <<mem_store, mem_run, mem_seen, mem_history>>
lateVars == <<khoiVars, validateVars, navVars, memVars>>
midVars == <<mergeVars, storeVars, rrfVars, chatVars, sessionVars, deadlineVars>>
moreVars == <<mergeVars, storeVars, rrfVars, chatVars, sessionVars, deadlineVars, lateVars>>

vars == <<supVars, sqlVars, tblVars, cacheVars, ragVars, dedupVars, moreVars>>

\* what the actions of one component leave alone
nonSupVars == <<sqlVars, tblVars, cacheVars, ragVars, dedupVars, moreVars>>
nonSqlVars == <<supVars, tblVars, cacheVars, ragVars, dedupVars, moreVars>>
nonTblVars == <<supVars, sqlVars, cacheVars, ragVars, dedupVars, moreVars>>
nonCacheVars == <<supVars, sqlVars, tblVars, ragVars, dedupVars, moreVars>>
nonRagVars == <<supVars, sqlVars, tblVars, dedupVars, moreVars>>
nonDedupVars == <<supVars, sqlVars, tblVars, cacheVars, ragVars, moreVars>>
earlierVars == <<supVars, sqlVars, tblVars, cacheVars, ragVars, dedupVars>>
nonMergeVars == <<earlierVars, storeVars, rrfVars, chatVars, sessionVars, deadlineVars, lateVars>>
nonStoreVars == <<earlierVars, mergeVars, rrfVars, chatVars, sessionVars, deadlineVars, lateVars>>
nonRrfVars == <<earlierVars, mergeVars, storeVars, chatVars, sessionVars, deadlineVars, lateVars>>
nonChatVars == <<earlierVars, mergeVars, storeVars, rrfVars, sessionVars, deadlineVars, lateVars>>
nonDeadlineVars == <<earlierVars, mergeVars, storeVars, rrfVars, chatVars, sessionVars, lateVars>>
nonNavVars == <<earlierVars, midVars, khoiVars, validateVars, memVars>>
nonMemVars == <<earlierVars, midVars, khoiVars, validateVars, navVars>>

-----------------------------------------------------------------------------
(* Python values *)

None == [t |-> "None"]

Str(s) == [t |-> "str", v |-> s]

List(q) == [t |-> "list", v |-> q]

Dict(f) == [t |-> "dict", v |-> f]

EmptyDict == Dict(<<>>)

\* bool(x)
Truthy(x) ==
    CASE x.t = "None" -> FALSE
      [] x.t = "str"  -> x.v # ""
      [] x.t = "list" -> x.v # <<>>
      [] x.t = "dict" -> DOMAIN x.v # {}

\* d.get(k, dflt)
Get(d, k, dflt) == IF k \in DOMAIN d.v THEN d.v[k] ELSE dflt

\* x or {}
OrEmptyDict(x) == IF Truthy(x) THEN x ELSE EmptyDict

\* the elements of a sequence
Range(q) == { q[i] : i \in 1..Len(q) }

\* the state after a node returned the partial update upd (last value wins)
Update(st, upd) ==
    [k \in DOMAIN st |-> IF k \in DOMAIN upd THEN upd[k] ELSE st[k]]

-----------------------------------------------------------------------------
(* Bounds *)

\* the router holds at most this many routes (intents.json is configuration)
MaxRoutes == 2

\* the RAG engine returns at most this many sources in the model
MaxSources == 2

-----------------------------------------------------------------------------
(* Semantic router: SemanticRouter.route *)

\* router_similarity_threshold, in percent
RouterThreshold == 85

\* the supervisor's own acceptance level (confidence > 0.75), in percent
BestOfLevel == 75

\* similarity levels the model draws from: below, at and between the two
\* levels above, and above the threshold
ScoreLevels == {0, 70, 75, 80, 85, 90}

\* route names a deployment may load: the names of the supervisor's table,
\* names its prefix rules catch, and names nothing catches
IntentNames ==
    { "score_lookup", "quota_region", "regulation_health", "procedure_new",
      "faq_new", "priority", "school_info", "greeting", "about", "unclear",
      "comparison" }

\* the routes the model loads after the first one: a key of the
\* supervisor's table and a name only its prefix rules catch
OtherRoutes == { "score_lookup", "faq_new" }

\* the loaded routes, in the order route() iterates over them: any route
\* first, then routes of OtherRoutes, no route twice
RouteLists ==
    { q \in UNION { [1..n -> IntentNames] : n \in 1..MaxRoutes } :
        /\ \A i, j \in 1..Len(q) : i # j => q[i] # q[j]
        /\ \A i \in 2..Len(q) : q[i] \in OtherRoutes }

MaxOf(S) == CHOOSE m \in S : \A x \in S : x <= m

\* the first key of the dict (routes in insertion order) with the largest
\* score: what both `if max_sim > best_score` and max(d, key=d.get) pick
ArgMax(routes, scores) ==
    LET top == MaxOf({ scores[routes[i]] : i \in 1..Len(routes) })
        idx == CHOOSE i \in 1..Len(routes) :
                   /\ scores[routes[i]] = top
                   /\ \A j \in 1..(i - 1) : scores[routes[j]] # top
    IN  routes[idx]

\* SemanticRouter.route: the dict it returns for the given example scores
RouterRoute(routes, scores) ==
    LET top        == MaxOf({ scores[routes[i]] : i \in 1..Len(routes) })
        best_score == IF top > 0 THEN top ELSE 0
        best_route == IF top > 0 THEN Str(ArgMax(routes, scores)) ELSE None
    IN  IF best_score < RouterThreshold
        THEN Dict([ intent |-> Str("unknown"), confidence |-> best_score,
                    all_scores |-> [routes |-> routes, scores |-> scores],
                    matched |-> FALSE ])
        ELSE Dict([ intent |-> best_route, confidence |-> best_score,
                    all_scores |-> [routes |-> routes, scores |-> scores],
                    matched |-> TRUE ])

-----------------------------------------------------------------------------
(* Supervisor: the route node, SupervisorAgent._route_node *)

\* the user-facing texts
NoDataMsg        == "Khong tim thay du lieu phu hop voi yeu cau cua ban."
SqlFailMsg       == "Xin loi, toi khong the xu ly truy van nay."
RagNotFoundMsg   == "Xin loi, toi khong tim thay thong tin phu hop trong van ban quy dinh."
CombineSorryMsg  == "Xin loi, toi khong tim thay thong tin lien quan."
ClarifyMsg       == "Toi can them thong tin de tra loi cau hoi cua ban."
ProcessDefault   == "Xin loi, toi khong the xu ly yeu cau nay."
ProcessSorryMsg  == "Xin loi, da xay ra loi khi xu ly yeu cau cua ban."

\* initial_state of SupervisorAgent.process
InitialState ==
    [ intent              |-> None,
      agent_type          |-> None,
      sql_result          |-> None,
      rag_result          |-> None,
      response            |-> None,
      sources             |-> List(<<>>),
      needs_clarification |-> FALSE,
      error               |-> None ]

\* agent_mapping.get(intent)
AgentMapping(name) ==
    CASE name \in {"score_lookup", "score_check", "quota_lookup", "comparison"}
           -> Str("sql")
      [] name \in {"regulation", "regulation_health", "regulation_politics",
                   "regulation_academic", "regulation_age", "procedure",
                   "procedure_registration", "procedure_documents",
                   "procedure_exam", "faq", "faq_benefits", "faq_life",
                   "faq_career", "faq_female", "priority"}
           -> Str("rag")
      [] name = "school_info"
           -> Str("school_info")
      [] name \in {"greeting", "about_bot", "unclear"}
           -> Str("general")
      [] OTHER -> None

\* name.startswith(prefix), for the route names of the model and the five
\* prefixes the route node tests
StartsWith(name, prefix) ==
    <<name, prefix>> \in
        { <<"score_lookup", "score">>, <<"quota_region", "quota">>,
          <<"regulation_health", "regulation">>,
          <<"procedure_new", "procedure">>, <<"faq_new", "faq">> }

\* the agent for an accepted router intent: the table, then the name pattern
TableAgent(name) ==
    IF AgentMapping(name) # None
    THEN AgentMapping(name)
    ELSE IF \/ StartsWith(name, "regulation")
            \/ StartsWith(name, "procedure")
            \/ StartsWith(name, "faq")
         THEN Str("rag")
         ELSE IF StartsWith(name, "score") \/ StartsWith(name, "quota")
              THEN Str("sql")
              ELSE Str("general")

\* intent and confidence after the best-of step on the router's result
RoutedIntent(rr) ==
    LET intent     == Get(rr, "intent", Str("unknown"))
        confidence == Get(rr, "confidence", 0)
        all        == Get(rr, "all_scores", [routes |-> <<>>, scores |-> <<>>])
    IN  IF intent = Str("unknown") /\ confidence > BestOfLevel
                                    /\ Len(all.routes) > 0
        THEN [ intent     |-> Str(ArgMax(all.routes, all.scores)),
               confidence |-> all.scores[ArgMax(all.routes, all.scores)] ]
        ELSE [ intent |-> intent, confidence |-> confidence ]

\* mutant: the table is used only above the router's threshold
TableAccepts_AboveThreshold(rr) == RoutedIntent(rr).confidence > RouterThreshold

\* whether the route node returns from the table, without the planner
TableAccepts(rr) == RoutedIntent(rr).confidence > BestOfLevel

\* the update returned from the table
TableUpdate(rr) ==
    [ intent     |-> RoutedIntent(rr).intent,
      agent_type |-> TableAgent(RoutedIntent(rr).intent.v) ]

\* what generate_with_json may return to the planner call: JSON null, a
\* JSON array, and objects with or without the "agent" key
PlannerAgents ==
    {"sql", "rag", "school_info", "general", "clarification", "both", "other"}

PlannerReplies ==
    { None, List(<<>>), Dict([reason |-> Str("r")]), Dict([agent |-> None]),
      Dict([agent |-> List(<<>>)]) }
    \cup { Dict([agent |-> Str(a)]) : a \in PlannerAgents }

\* response.get("agent", "general") if isinstance(response, dict) else "general"
AgentStr(reply) ==
    IF reply.t = "dict" THEN Get(reply, "agent", Str("general"))
                        ELSE Str("general")

\* the lookup {...}.get(agent_str, AgentType.GENERAL) raises TypeError for an
\* unhashable key
PlannerLookupRaises(reply) == AgentStr(reply).t \in {"list", "dict"}

\* mutant: the planner's agent "both" starts with the SQL engine
PlannerAgentType_BothIsSql(agent_str) ==
    CASE agent_str \in {Str("sql"), Str("both")} -> Str("sql")
      [] agent_str = Str("rag")           -> Str("rag")
      [] agent_str = Str("school_info")   -> Str("school_info")
      [] agent_str = Str("clarification") -> None
      [] OTHER                            -> Str("general")

\* {...}.get(agent_str, AgentType.GENERAL)
PlannerAgentType(agent_str) ==
    CASE agent_str = Str("sql")           -> Str("sql")
      [] agent_str = Str("rag")           -> Str("rag")
      [] agent_str = Str("school_info")   -> Str("school_info")
      [] agent_str = Str("general")       -> Str("general")
      [] agent_str = Str("clarification") -> None
      [] OTHER                            -> Str("general")

\* the update returned after the planner answered
PlannerUpdate(reply) ==
    IF reply = None
    THEN [ intent |-> Str("general"), agent_type |-> Str("general") ]
    ELSE [ intent              |-> AgentStr(reply),
           agent_type          |-> PlannerAgentType(AgentStr(reply)),
           needs_clarification |-> (AgentStr(reply) = Str("clarification")) ]

\* mutant: a planner that raised sends the run to clarify
PlannerFailedUpdate_Clarify ==
    [ intent |-> Str("general"), agent_type |-> None,
      needs_clarification |-> TRUE, error |-> Str("planner error") ]

\* the update returned when the planner call raised
PlannerFailedUpdate ==
    [ intent |-> Str("general"), agent_type |-> Str("general"),
      error  |-> Str("planner error") ]

\* SupervisorAgent._decide_next
DecideNext(st) ==
    IF st.needs_clarification THEN "clarify"
    ELSE IF st.agent_type = Str("sql") THEN "sql"
    ELSE IF st.agent_type = Str("school_info") THEN "school_info"
    ELSE IF st.agent_type = Str("rag") THEN "rag"
    ELSE "general"

\* mutant: the general label wired straight to END
RouteEdges_GeneralToEnd(label) ==
    CASE label = "sql"         -> "sql_agent"
      [] label = "rag"         -> "rag_agent"
      [] label = "general"     -> "END"
      [] label = "school_info" -> "school_info"
      [] label = "clarify"     -> "clarify"
      [] label = "both"        -> "sql_agent"

\* the conditional edges out of route (add_conditional_edges("route", ...))
RouteEdges(label) ==
    CASE label = "sql"         -> "sql_agent"
      [] label = "rag"         -> "rag_agent"
      [] label = "general"     -> "general"
      [] label = "school_info" -> "school_info"
      [] label = "clarify"     -> "clarify"
      [] label = "both"        -> "sql_agent"

-----------------------------------------------------------------------------
(* Supervisor: the engines as the nodes see them *)

\* a row of view_tra_cuu_diem, and the statement that produced it
SomeRow == [nam |-> 2024, ten_truong |-> "Hoc vien Ky thuat Quan su"]
SomeSql == "SELECT * FROM view_tra_cuu_diem;"

\* SQLAgent.process_query: the dict returned by an attempt that executed
SqlSuccess(stmt, rows, answer, attempts) ==
    Dict([ sql |-> stmt, results |-> List(rows), answer |-> Str(answer),
           attempts |-> attempts ])

\* SQLAgent.process_query: the dict returned when every attempt failed
SqlFailure(stmt, error, attempts) ==
    Dict([ sql |-> stmt, results |-> None, answer |-> Str(SqlFailMsg),
           error |-> Str(error), attempts |-> attempts ])

\* what process_query may hand to the sql node: rows, no rows, no success
SqlReturns ==
    { SqlSuccess(Str(SomeSql), <<SomeRow>>, "intro and table", 1),
      SqlSuccess(Str(SomeSql), <<>>, NoDataMsg, 1),
      SqlFailure(Str(SomeSql), "database error", 3),
      SqlFailure(None, "llm error", 3) }

\* the source records of the RAG engine (RAGAgent._format_sources)
RagSource(i) == [type |-> "legal", rank |-> i]

\* what RAGAgent.process_query may return: an answer with its sources (the
\* answer is whatever text the LLM produced, "" included), or _empty_result
RagReturns ==
    { Dict([ answer |-> Str(a), sources |-> List([i \in 1..n |-> RagSource(i)]) ]) :
        a \in {"rag answer", ""}, n \in 1..MaxSources }
    \cup { Dict([ answer |-> Str(RagNotFoundMsg), sources |-> List(<<>>) ]) }

\* what llm_service.generate may return: some text, or no text at all
LlmTexts == { Str("llm text"), Str("") }

-----------------------------------------------------------------------------
(* Supervisor: the other nodes and edges *)

\* SupervisorAgent._sql_node, when process_query returned out
SqlNodeUpdate(out) ==
    [ sql_result |-> out, response |-> Get(out, "answer", None) ]

\* mutant: every SQL miss falls back to the RAG engine
AfterSql_AlwaysRag(st) ==
    IF Truthy(Get(OrEmptyDict(st.sql_result), "results", None))
    THEN "end"
    ELSE "rag"

\* SupervisorAgent._after_sql
AfterSql(st) ==
    IF Truthy(Get(OrEmptyDict(st.sql_result), "results", None))
    THEN "end"
    ELSE IF st.intent \in {Str("both"), Str("rag")} THEN "rag" ELSE "end"

\* the conditional edges out of sql_agent
SqlEdges(label) ==
    CASE label = "rag"     -> "rag_agent"
      [] label = "combine" -> "combine"
      [] label = "end"     -> "END"

\* SupervisorAgent._rag_node, when process_query returned out
RagNodeUpdate(out) ==
    [ rag_result |-> out,
      response   |-> Get(out, "answer", None),
      sources    |-> Get(out, "sources", List(<<>>)) ]

\* SupervisorAgent._rag_node, when process_query raised
RagNodeFailedUpdate ==
    [ rag_result |-> Dict([error |-> Str("rag error")]),
      error      |-> Str("rag error") ]

\* SupervisorAgent._school_info_node, when a school matched and the LLM
\* returned text
SchoolInfoUpdate(text) ==
    [ response |-> text,
      sources  |-> List(<<[type |-> "database", table |-> "truong"]>>) ]

\* mutant: no fallback after school_info
AfterSchoolInfo_AlwaysEnd(st) == "end"

\* SupervisorAgent._after_school_info
AfterSchoolInfo(st) == IF Truthy(st.response) THEN "end" ELSE "rag"

\* mutant: the fallback of school_info goes back to routing
SchoolInfoEdges_Reroute(label) ==
    CASE label = "end" -> "END"
      [] label = "rag" -> "route"

\* the conditional edges out of school_info
SchoolInfoEdges(label) ==
    CASE label = "end" -> "END"
      [] label = "rag" -> "rag_agent"

\* mutant: the first test reads the SQL answer instead of the SQL rows
CombineBranch_AnswerForRows(st) ==
    LET sql_result == OrEmptyDict(st.sql_result)
        rag_result == OrEmptyDict(st.rag_result)
    IN  IF /\ ~Truthy(Get(sql_result, "answer", None))
           /\ Truthy(Get(rag_result, "answer", None))
        THEN "rag"
        ELSE IF /\ Truthy(Get(sql_result, "answer", None))
                /\ ~Truthy(Get(rag_result, "answer", None))
        THEN "sql"
        ELSE IF /\ ~Truthy(Get(sql_result, "answer", None))
                /\ ~Truthy(Get(rag_result, "answer", None))
        THEN "neither"
        ELSE "merge"

\* the branch _combine_node takes
CombineBranch(st) ==
    LET sql_result == OrEmptyDict(st.sql_result)
        rag_result == OrEmptyDict(st.rag_result)
    IN  IF /\ ~Truthy(Get(sql_result, "results", None))
           /\ Truthy(Get(rag_result, "answer", None))
        THEN "rag"
        ELSE IF /\ Truthy(Get(sql_result, "answer", None))
                /\ ~Truthy(Get(rag_result, "answer", None))
        THEN "sql"
        ELSE IF /\ ~Truthy(Get(sql_result, "answer", None))
                /\ ~Truthy(Get(rag_result, "answer", None))
        THEN "neither"
        ELSE "merge"

\* the sources _combine_node returns from its merge branch
CombineSources(st) ==
    LET sql_result == OrEmptyDict(st.sql_result)
        sources    == IF Truthy(st.sources) THEN st.sources.v ELSE <<>>
    IN  IF Truthy(Get(sql_result, "sql", None))
        THEN List(Append(sources, [type |-> "sql", query |-> sql_result.v.sql]))
        ELSE List(sources)

\* SupervisorAgent._combine_node; text is what the LLM returned if asked
CombineUpdate(st, text) ==
    CASE CombineBranch(st) = "rag"
           -> [ response |-> st.rag_result.v.answer ]
      [] CombineBranch(st) = "sql"
           -> [ response |-> st.sql_result.v.answer ]
      [] CombineBranch(st) = "neither"
           -> [ response |-> Str(CombineSorryMsg) ]
      [] CombineBranch(st) = "merge"
           -> [ response |-> text, sources |-> CombineSources(st) ]

\* SupervisorAgent._clarify_node
ClarifyUpdate ==
    [ response |-> Str(ClarifyMsg), needs_clarification |-> TRUE ]

\* final_state.get(k, dflt)
FinalGet(st, k, dflt) == IF k \in DOMAIN st THEN st[k] ELSE dflt

\* what SupervisorAgent.process returns after graph.ainvoke returned
ProcessResult(final_state) ==
    Dict([ response |-> FinalGet(final_state, "response", Str(ProcessDefault)),
           intent   |-> FinalGet(final_state, "intent", None),
           sources  |-> FinalGet(final_state, "sources", List(<<>>)),
           error    |-> FinalGet(final_state, "error", None) ])

\* what SupervisorAgent.process returns after graph.ainvoke raised e
ProcessFailedResult(e) ==
    Dict([ response |-> Str(ProcessSorryMsg), error |-> e ])

-----------------------------------------------------------------------------
(* SQL engine: text *)
(* A text is a sequence of atoms. An atom is a piece of text that the      *)
(* operations below never split: a word the code searches for occurs       *)
(* inside one atom, never across two, and blank space is an atom of its    *)
(* own, so that strip, upper, the substring tests and the regular          *)
(* expressions are computed on the sequence as the code computes them on   *)
(* the characters.                                                         *)

Space == " "
Semi == ";"

\* the atoms on which re.IGNORECASE matches SELECT
SelectAtoms == {"SELECT", "select"}

\* default of settings.sql_max_retries
MaxRetries == 3

\* an LLM response holds at most this many statements after the first
MaxExtra == 1

RECURSIVE LStrip(_)
LStrip(q) == IF q # <<>> /\ Head(q) = Space THEN LStrip(Tail(q)) ELSE q

RECURSIVE RStrip(_)
RStrip(q) ==
    IF q # <<>> /\ q[Len(q)] = Space THEN RStrip(SubSeq(q, 1, Len(q) - 1)) ELSE q

\* str.strip()
Strip(q) == LStrip(RStrip(q))

\* str.rstrip(";")
RECURSIVE RStripSemi(_)
RStripSemi(q) ==
    IF q # <<>> /\ q[Len(q)] = Semi THEN RStripSemi(SubSeq(q, 1, Len(q) - 1)) ELSE q

\* the least element of a set of indices, 0 when there is none
FirstOf(S) == IF S = {} THEN 0 ELSE CHOOSE i \in S : \A j \in S : i <= j

\* re.sub(r"<think>.*?</think>", "", response, flags=re.DOTALL)
RECURSIVE RemoveThink(_)
RemoveThink(q) ==
    LET i == FirstOf({ n \in 1..Len(q) : q[n] = "<think>" })
        j == FirstOf({ n \in (i + 1)..Len(q) : q[n] = "</think>" })
    IN  IF i = 0 \/ j = 0
        THEN q
        ELSE SubSeq(q, 1, i - 1) \o RemoveThink(SubSeq(q, j + 1, Len(q)))

\* the markdown fence (three backquotes), bare and followed by sql
Fence == "[fence]"
FenceSql == "[fence]sql"

\* the three fence tests of _extract_sql, in the order of the code
StripFences(q) ==
    LET r1 == IF q # <<>> /\ Head(q) = FenceSql THEN Tail(q) ELSE q
        r2 == IF r1 # <<>> /\ Head(r1) = Fence THEN Tail(r1)
              ELSE IF r1 # <<>> /\ Head(r1) = FenceSql THEN <<"sql">> \o Tail(r1)
              ELSE r1
    IN  IF r2 # <<>> /\ r2[Len(r2)] = Fence THEN SubSeq(r2, 1, Len(r2) - 1) ELSE r2

\* the number of blank atoms of q from index i on
RECURSIVE SpaceRun(_, _)
SpaceRun(q, i) ==
    IF i <= Len(q) /\ q[i] = Space THEN 1 + SpaceRun(q, i + 1) ELSE 0

\* whether (SELECT\s+.+?)(?:;|$) matches at index i: SELECT, blank space,
\* and one more character, which may be the last blank
SelectMatchesAt(q, i) ==
    /\ q[i] \in SelectAtoms
    /\ LET k == SpaceRun(q, i + 1)
       IN  k >= 1 /\ (i + k < Len(q) \/ k >= 2)

\* group(1) of the match at index i: up to the first ";" after the first
\* character that follows the blank space, or up to the end of the text
SelectGroup(q, i) ==
    LET k == SpaceRun(q, i + 1)
        p == i + k + 1
        j == FirstOf({ n \in (p + 1)..Len(q) : q[n] = Semi })
    IN  IF j = 0 THEN SubSeq(q, i, Len(q)) ELSE SubSeq(q, i, j - 1)

\* SQLAgent._extract_sql
ExtractSql(response) ==
    LET r == StripFences(Strip(RemoveThink(Strip(response))))
        i == FirstOf({ n \in 1..Len(r) : SelectMatchesAt(r, n) })
    IN  IF i # 0 THEN Append(Strip(SelectGroup(r, i)), Semi) ELSE Strip(r)

\* the atoms r"gioi_tinh\s*=\s*'[^']*'" (resp. khu_vuc) matches in, and what
\* is left of the atom around the match
PredicateAtoms(col) ==
    CASE col = "gioi_tinh" -> {"WHERE gioi_tinh = 'Nam'", "WHERE gioi_tinh = 'nu'"}
      [] col = "khu_vuc"   -> {"WHERE khu_vuc = 'bac'", "WHERE khu_vuc = 'mien_bac'"}

FixedAtom(col, value) ==
    CASE col = "gioi_tinh" /\ value = "nu"     -> "WHERE gioi_tinh = 'nu'"
      [] col = "gioi_tinh" /\ value = "nam"    -> "WHERE gioi_tinh = 'nam'"
      [] col = "khu_vuc" /\ value = "mien_bac" -> "WHERE khu_vuc = 'mien_bac'"
      [] col = "khu_vuc" /\ value = "mien_nam" -> "WHERE khu_vuc = 'mien_nam'"

\* one re.sub of _fix_filter_values
FixColumn(q, col, value) ==
    IF Truthy(value)
    THEN [n \in 1..Len(q) |->
            IF q[n] \in PredicateAtoms(col) THEN FixedAtom(col, value.v) ELSE q[n]]
    ELSE q

\* SQLAgent._fix_filter_values
FixFilterValues(q, ents) ==
    FixColumn(FixColumn(q, "gioi_tinh", Get(ents, "gioi_tinh", None)),
              "khu_vuc", Get(ents, "khu_vuc", None))

\* dangerous_keywords of _validate_sql, in the order of the list
DangerousKeywords ==
    <<"DROP", "DELETE", "UPDATE", "INSERT", "ALTER", "TRUNCATE", "CREATE",
      "GRANT", "REVOKE", "--", "/*">>

\* the words among dangerous_keywords and LIMIT that occur in atom.upper()
AtomWords(a) ==
    CASE a = "drop table truong" -> {"DROP"}
      [] a \in {"LIMIT 10", "LIMIT 50"} -> {"LIMIT"}
      [] a = "WHERE ten_khong_dau ILIKE '%limited%'" -> {"LIMIT"}
      [] OTHER -> {}

\* word in sql.upper()
Contains(q, word) == \E n \in 1..Len(q) : word \in AtomWords(q[n])

\* sql_upper.strip().startswith("SELECT")
StartsWithSelect(q) == Strip(q) # <<>> /\ Head(Strip(q)) \in SelectAtoms

\* mutant: the keyword test is left out
BasicCheck_NoKeywords(q) ==
    IF ~StartsWithSelect(q) THEN Str(<<"Query must start with SELECT">>) ELSE None

\* the checks of _validate_sql that precede the grader: None when they
\* pass, else the error message
BasicCheck(q) ==
    LET k == FirstOf({ n \in 1..Len(DangerousKeywords) :
                         Contains(q, DangerousKeywords[n]) })
    IN  IF k # 0 THEN Str(<<"Dangerous keyword detected: ", DangerousKeywords[k]>>)
        ELSE IF ~StartsWithSelect(q) THEN Str(<<"Query must start with SELECT">>)
        ELSE None

\* what generate_with_json may return to _validate_sql
GraderReplies ==
    { Dict([valid |-> TRUE]),
      Dict([valid |-> FALSE, error |-> Str(<<"sai ten cot">>)]),
      Dict(<<>>) }

\* the verdict of _validate_sql on a grader reply: None when valid
GraderCheck(reply) ==
    IF ~Get(reply, "valid", FALSE)
    THEN Get(reply, "error", Str(<<"Validation failed">>))
    ELSE None

\* the statement _execute_sql passes to db.fetch_all
ExecuteStatement(q) ==
    IF ~Contains(q, "LIMIT")
    THEN RStripSemi(q) \o <<Space, "LIMIT 50", Semi>>
    ELSE q

-----------------------------------------------------------------------------
(* SQL engine: what the LLM may answer to _generate_sql *)

Heads == { <<"SELECT", Space>>, <<"select", Space>>, <<"SELECT">> }

Tables == { "* FROM view_tra_cuu_diem", "* FROM truong" }

Tails ==
    { <<>>,
      <<Space, "LIMIT 10">>,
      <<Space, "WHERE ten_khong_dau ILIKE '%limited%'">>,
      <<Space, "WHERE gioi_tinh = 'Nam'">> }

\* one statement: SELECT, with or without blank space after it, a table,
\* and possibly a clause
Statements == { h \o <<t>> \o c : h \in Heads, t \in Tables, c \in Tails }

\* what may follow the first statement
ExtraStatements == { <<"drop table truong">>, <<"SELECT", Space, "* FROM truong">> }

RECURSIVE Endings(_)
Endings(n) ==
    IF n = 0
    THEN { <<>>, <<Semi>> }
    ELSE Endings(n - 1)
         \cup { <<Semi>> \o x \o e : x \in ExtraStatements, e \in Endings(n - 1) }

Bodies ==
    { s \o e : s \in Statements, e \in Endings(MaxExtra) }
    \cup { <<"drop table truong", Semi>>, <<"Toi khong the tra loi">> }

\* the text around the statements: none, a fence, thinking, a preamble
Wrap(w, body) ==
    CASE w = "plain"    -> body
      [] w = "fence"    -> <<FenceSql, Space>> \o body \o <<Space, Fence>>
      [] w = "think"    -> <<"<think>", "suy nghi", "</think>", Space>> \o body
      [] w = "preamble" -> <<"Cau truy van:", Space>> \o body

LlmResponses ==
    { Wrap(w, b) : w \in {"plain", "fence", "think", "preamble"}, b \in Bodies }

\* what _generate_sql may return
GeneratedSqls == { ExtractSql(r) : r \in LlmResponses }

\* what _extract_entities may return, as far as _fix_filter_values reads it
EntitySets ==
    { Dict([query_normalized |-> Str("q")]),
      Dict([query_normalized |-> Str("q"), gioi_tinh |-> Str("nu")]) }

-----------------------------------------------------------------------------
(* SQL engine: actions *)

\* SQLAgent.process_query up to the loop
ProcessQuery ==
    /\ sql_pc = "idle"
    /\ \E ents \in EntitySets : entities' = ents
    /\ attempt' = 0
    /\ error_history' = <<>>
    /\ error_context' = <<>>
    /\ sql' = None
    /\ results' = None
    /\ db_sent' = None
    /\ sql_return' = None
    /\ sql_pc' = "loop"
    /\ UNCHANGED nonSqlVars

\* mutant: a failed attempt leaves no message
AttemptFailed_NoMessage(msg) ==
    /\ error_history' = error_history
    /\ attempt' = attempt + 1
    /\ sql_pc' = "loop"

\* the end of an attempt that did not return: the message joins the error
\* history (the except clause, or the validation branch before `continue`)
AttemptFailed(msg) ==
    /\ error_history' = Append(error_history, msg)
    /\ attempt' = attempt + 1
    /\ sql_pc' = "loop"

\* error_history[-n:]
LastN(q, n) == IF Len(q) <= n THEN q ELSE SubSeq(q, Len(q) - n + 1, Len(q))

\* an attempt starts: _generate_sql (the prompt with the last three errors,
\* the LLM call, _extract_sql), then _fix_filter_values
GenerateSql ==
    /\ sql_pc = "loop"
    /\ attempt < MaxRetries
    /\ db_sent' = None
    /\ error_context' = LastN(error_history, 3)
    /\ \/ /\ \E s \in GeneratedSqls : sql' = Str(FixFilterValues(s, entities))
          /\ sql_pc' = "validate"
          /\ UNCHANGED <<attempt, error_history>>
       \/ /\ AttemptFailed(<<"llm error">>)
          /\ UNCHANGED sql
    /\ UNCHANGED <<entities, results, sql_return, nonSqlVars>>

\* _validate_sql and the test of its verdict
ValidateSql ==
    /\ sql_pc = "validate"
    /\ LET basic == BasicCheck(sql.v)
           Accepted == /\ sql_pc' = "execute"
                       /\ UNCHANGED <<attempt, error_history>>
           Rejected(e) == AttemptFailed(<<"Validation error: ">> \o e.v)
       IN  \/ basic # None /\ Rejected(basic)
           \/ /\ basic = None
              /\ \E reply \in GraderReplies :
                   IF GraderCheck(reply) = None
                   THEN Accepted
                   ELSE Rejected(GraderCheck(reply))
           \/ basic = None /\ Accepted    \* the grader call raised
    /\ UNCHANGED <<entities, error_context, sql, results, db_sent, sql_return, nonSqlVars>>

\* _execute_sql: the statement goes to the database, which answers or raises
ExecuteSql ==
    /\ sql_pc = "execute"
    /\ db_sent' = Str(ExecuteStatement(sql.v))
    /\ \/ /\ \E rows \in { <<SomeRow>>, <<>> } : results' = List(rows)
          /\ sql_pc' = "answer"
          /\ UNCHANGED <<attempt, error_history>>
       \/ /\ AttemptFailed(<<"db error">>)
          /\ UNCHANGED results
    /\ UNCHANGED <<entities, error_context, sql, sql_return, nonSqlVars>>

\* _generate_answer and the return of process_query
GenerateAnswer ==
    /\ sql_pc = "answer"
    /\ \/ /\ ~Truthy(results)
          /\ sql_return' = SqlSuccess(sql, results.v, NoDataMsg, attempt + 1)
          /\ sql_pc' = "idle"
          /\ UNCHANGED <<attempt, error_history>>
       \/ /\ Truthy(results)
          /\ sql_return' = SqlSuccess(sql, results.v, "intro and table", attempt + 1)
          /\ sql_pc' = "idle"
          /\ UNCHANGED <<attempt, error_history>>
       \/ /\ Truthy(results)
          /\ AttemptFailed(<<"llm error">>)
          /\ UNCHANGED sql_return
    /\ UNCHANGED <<entities, error_context, sql, results, db_sent, nonSqlVars>>

\* the return of process_query after the loop
ReturnFailure ==
    /\ sql_pc = "loop"
    /\ attempt >= MaxRetries
    /\ sql_return' =
         SqlFailure(sql,
                    IF error_history # <<>> THEN error_history[Len(error_history)]
                                            ELSE <<"Unknown error">>,
                    MaxRetries)
    /\ sql_pc' = "idle"
    /\ UNCHANGED <<entities, attempt, error_history, error_context, sql, results,
                   db_sent, nonSqlVars>>

-----------------------------------------------------------------------------
(* SQL engine: SQLAgent._build_markdown_table *)
(* A row is a record of Python values; a cell of the table is a text, the  *)
(* sequence of its pieces ("" is the empty sequence); a line of the table  *)
(* is the sequence of its cells (the "| " and " | " around them are        *)
(* fixed), and the table is the sequence of its lines.                     *)

\* the table is built from at most this many rows
MaxRows == 2

PyInt(n) == [t |-> "int", v |-> n]

\* str(value)
PyStr(value) ==
    CASE value.t = "str" -> value.v
      [] value = PyInt(2023) -> "2023"
      [] value = PyInt(2024) -> "2024"

\* str.strip() on the cell values of the model
StripText(s) ==
    CASE s = " "    -> ""
      [] s = "A01 " -> "A01"
      [] OTHER      -> s

\* str.lower() on the cell values of the model
Lower(s) == IF s = "Nam" THEN "nam" ELSE s

\* "Nu" stands for the display value of "nu"
GIOI_TINH_MAP == [nam |-> "Nam", nu |-> "Nu"]
KHU_VUC_MAP == [mien_bac |-> "Mien Bac", mien_nam |-> "Mien Nam"]

\* no val_map given
NoMap == <<>>

\* _val(value, val_map)
Val(value, val_map) ==
    IF value = None
    THEN ""
    ELSE LET v == StripText(PyStr(value))
         IN  IF v = "" THEN ""
             ELSE IF DOMAIN val_map # {}
                  THEN IF Lower(v) \in DOMAIN val_map THEN val_map[Lower(v)] ELSE v
                  ELSE v

\* row.get(key)
RowGet(row, key) == IF key \in DOMAIN row THEN row[key] ELSE None

\* group_key of a row
GroupKey(row) ==
    << Val(RowGet(row, "nam"), NoMap),
       Val(RowGet(row, "ten_truong"), NoMap),
       Val(RowGet(row, "ten_nganh"), NoMap),
       Val(RowGet(row, "gioi_tinh"), GIOI_TINH_MAP),
       Val(RowGet(row, "khu_vuc"), KHU_VUC_MAP),
       Val(RowGet(row, "diem_chuan"), NoMap),
       Val(RowGet(row, "chi_tieu"), NoMap),
       Val(RowGet(row, "ghi_chu"), NoMap) >>

\* a variant of AddRow that puts every row in the first group
AddRow_MergeAll(groups, row) ==
    LET key  == GroupKey(row)
        khoi == Val(RowGet(row, "ma_khoi"), NoMap)
        g1   == IF groups = <<>> THEN <<[key |-> key, khoi |-> <<>>]>> ELSE groups
    IN  IF khoi # "" /\ khoi \notin Range(g1[1].khoi)
        THEN [g1 EXCEPT ![1].khoi = Append(@, khoi)]
        ELSE g1

\* one pass of the loop over results: groups is the OrderedDict, as the
\* sequence of its items in insertion order
AddRow(groups, row) ==
    LET key  == GroupKey(row)
        khoi == Val(RowGet(row, "ma_khoi"), NoMap)
        at   == FirstOf({ n \in 1..Len(groups) : groups[n].key = key })
        g1   == IF at = 0 THEN Append(groups, [key |-> key, khoi |-> <<>>])
                          ELSE groups
        idx  == IF at = 0 THEN Len(g1) ELSE at
    IN  IF khoi # "" /\ khoi \notin Range(g1[idx].khoi)
        THEN [g1 EXCEPT ![idx].khoi = Append(@, khoi)]
        ELSE g1

RECURSIVE GroupRows(_, _)
GroupRows(rows, groups) ==
    IF rows = <<>> THEN groups
    ELSE GroupRows(Tail(rows), AddRow(groups, Head(rows)))

\* the order of str on the khoi codes of the model
KhoiRank(k) == CASE k = "A00" -> 1 [] k = "A01" -> 2

\* sorted(khoi_list)
Sorted(khoi_list) ==
    CHOOSE q \in [1..Len(khoi_list) -> Range(khoi_list)] :
        /\ Range(q) = Range(khoi_list)
        /\ \A i, j \in 1..Len(q) : i < j => KhoiRank(q[i]) < KhoiRank(q[j])

\* ", ".join(q)
RECURSIVE JoinComma(_)
JoinComma(q) ==
    IF q = <<>> THEN <<>>
    ELSE IF Len(q) = 1 THEN <<q[1]>>
    ELSE <<q[1], ", ">> \o JoinComma(Tail(q))

\* a str as a text
Cell(s) == IF s = "" THEN <<>> ELSE <<s>>

\* the dict appended to `merged` for one group
MergedRow(g) ==
    [ nam        |-> Cell(g.key[1]),
      ten_truong |-> Cell(g.key[2]),
      ten_nganh  |-> Cell(g.key[3]),
      ma_khoi    |-> JoinComma(Sorted(g.khoi)),
      gioi_tinh  |-> Cell(g.key[4]),
      khu_vuc    |-> Cell(g.key[5]),
      diem_chuan |-> Cell(g.key[6]),
      chi_tieu   |-> Cell(g.key[7]),
      ghi_chu    |-> Cell(g.key[8]) ]

\* COLUMN_CONFIG (display names without diacritics)
COLUMN_CONFIG ==
    << <<"nam", "Nam">>, <<"ten_truong", "Truong">>, <<"ten_nganh", "Nganh">>,
       <<"ma_khoi", "Khoi">>, <<"gioi_tinh", "Gioi tinh">>,
       <<"khu_vuc", "Khu vuc">>, <<"diem_chuan", "Diem chuan">>,
       <<"chi_tieu", "Chi tieu">>, <<"ghi_chu", "Ghi chu">> >>

\* SQLAgent._build_markdown_table
MergeGroups(groups) == [n \in 1..Len(groups) |-> MergedRow(groups[n])]

IsActive(merged, col) == \E n \in 1..Len(merged) : merged[n][col[1]] # <<>>

RECURSIVE ActiveCols(_, _)
ActiveCols(merged, cols) ==
    IF cols = <<>> THEN <<>>
    ELSE IF IsActive(merged, Head(cols))
         THEN <<Head(cols)>> \o ActiveCols(merged, Tail(cols))
         ELSE ActiveCols(merged, Tail(cols))

TableLines(merged, active_cols) ==
    << [c \in 1..Len(active_cols) |-> <<active_cols[c][2]>>],
       [c \in 1..Len(active_cols) |-> <<"---">>] >>
    \o [n \in 1..Len(merged) |->
          [c \in 1..Len(active_cols) |-> merged[n][active_cols[c][1]]]]

RenderTable(merged, active_cols) ==
    IF active_cols = <<>> THEN <<>> ELSE TableLines(merged, active_cols)

RenderMerged(merged) == RenderTable(merged, ActiveCols(merged, COLUMN_CONFIG))

BuildMarkdownTable(rows) == RenderMerged(MergeGroups(GroupRows(rows, <<>>)))

TableRows ==
    [ nam       : {PyInt(2023), PyInt(2024), None},
      gioi_tinh : {Str("nam"), Str("Nam"), None},
      ma_khoi   : {Str("A00"), Str("A01 "), None} ]

\* the orderings of a list of rows
Reorderings(q) ==
    { [n \in 1..Len(q) |-> q[p[n]]] :
        p \in { f \in [1..Len(q) -> 1..Len(q)] : Range(f) = 1..Len(q) } }

\* no table has been built
TableIdle ==
    /\ table_in = <<>>
    /\ table_out = None
    /\ table_first = None

\* _build_markdown_table is called on the rows of a result
BuildTable ==
    /\ table_out = None
    /\ table_out' = List(BuildMarkdownTable(table_in))
    /\ table_first' = table_out'
    /\ UNCHANGED <<table_in, nonTblVars>>

\* the same rows come back in another order and the table is built again
BuildTableReordered ==
    /\ table_out # None
    /\ \E q \in Reorderings(table_in) :
         /\ table_in' = q
         /\ table_out' = List(BuildMarkdownTable(q))
    /\ UNCHANGED <<table_first, nonTblVars>>

-----------------------------------------------------------------------------
(* Semantic cache (src/src/agents/components/cache.py)                      *)
(*                                                                          *)
(* Embeddings are vectors of one common length with integer coordinates;    *)
(* UnitSq is the square of that length, so the dot product of two of them   *)
(* is their cosine in units of 1/UnitSq. Time is counted in hours.          *)

CacheTtlHours == 24
CacheSimilarityThreshold == 92
CacheCapacity == 200
CleanupLevel == 1000

MaxAdds == 1
MaxClock == 25

UnitSq == 625

Queries == {"q1", "q2", "q3"}

\* EmbeddingService: the embedding of a query text
Embedding(q) ==
    CASE q = "q1" -> <<25, 0>>
      [] q = "q2" -> <<24, 7>>
      [] q = "q3" -> <<20, 15>>
      [] OTHER    -> <<0, 25>>

Embeddings == { Embedding(q) : q \in Queries }

CacheResponses == { Dict([answer |-> a]) : a \in {"a1", "a2"} }

Dot(a, b) == a[1] * b[1] + a[2] * b[2]

\* max_sim >= effective_threshold, the threshold in percent
AtLeastThreshold(sim) == sim * 100 >= CacheSimilarityThreshold * UnitSq

\* a variant of Expired for which no entry expires
Expired_Never(entry, current) == FALSE

Expired(entry, current) == current - entry.timestamp > CacheTtlHours

\* the loop of lookup: an entry replaces the best match when it has not
\* expired and its similarity is greater than max_sim, which starts at -1.0;
\* so the loop ends with the first of the unexpired entries of the greatest
\* similarity
BestMatch(entries, query_vec, current) ==
    LET Similarity(i) == Dot(entries[i].query_embedding, query_vec)
        valid_indices == { i \in 1..Len(entries) : ~Expired(entries[i], current) }
        above == { i \in valid_indices : Similarity(i) > -UnitSq }
        sims  == { Similarity(i) : i \in above }
        max_sim == CHOOSE m \in sims : \A x \in sims : x <= m
        first == CHOOSE i \in above :
                    /\ Similarity(i) = max_sim
                    /\ \A j \in above : Similarity(j) = max_sim => i <= j
    IN  IF above = {}
        THEN [best_match |-> None, max_sim |-> -UnitSq]
        ELSE [best_match |-> entries[first], max_sim |-> max_sim]

Cleanup(entries, current) ==
    SelectSeq(entries, LAMBDA entry : ~Expired(entry, current))

\* self._cache after lookup
CacheAfterLookup(entries, current) ==
    IF entries # <<>> /\ Len(entries) > CleanupLevel
    THEN Cleanup(entries, current)
    ELSE entries

\* what lookup returns
CacheLookup(entries, query_vec, current) ==
    LET found == BestMatch(entries, query_vec, current)
    IN  IF found.best_match # None /\ AtLeastThreshold(found.max_sim)
        THEN Dict([response       |-> found.best_match.response,
                   similarity     |-> found.max_sim,
                   original_query |-> found.best_match.query_text])
        ELSE None

NewEntry(query_text, response, current) ==
    [query_text      |-> query_text,
     query_embedding |-> Embedding(query_text),
     response        |-> response,
     timestamp       |-> current]

\* a variant of CacheAdd that never removes an entry
CacheAdd_NoEvict(entries, query_text, response, current) ==
    Append(entries, NewEntry(query_text, response, current))

\* self._cache after add
CacheAdd(entries, query_text, response, current) ==
    Append(IF Len(entries) >= CacheCapacity THEN Tail(entries) ELSE entries,
           NewEntry(query_text, response, current))

\* entries added before the model starts
OldEntry == NewEntry("q2", Dict([answer |-> "a0"]), 0)

Prefilled(n) == [i \in 1..n |-> OldEntry]

ClockSteps == {12, 13}

CacheIdle ==
    /\ cache = <<>>
    /\ now = 0
    /\ added = <<>>
    /\ lookup_arg = None
    /\ current_time = 0
    /\ best_match = None
    /\ lookup_ret = None

\* datetime.now() advances
Tick ==
    /\ \E d \in ClockSteps :
         /\ now + d <= MaxClock
         /\ now' = now + d
    /\ UNCHANGED <<cache, added, lookup_arg, current_time, best_match,
                   lookup_ret, nonCacheVars>>

\* a call of lookup(query_embedding)
Lookup ==
    /\ \E query_vec \in Embeddings :
         /\ lookup_arg' = List(query_vec)
         /\ best_match' = BestMatch(cache, query_vec, now).best_match
         /\ lookup_ret' = CacheLookup(cache, query_vec, now)
    /\ current_time' = now
    /\ cache' = CacheAfterLookup(cache, now)
    /\ UNCHANGED <<now, added, nonCacheVars>>

\* a call of add(query_text, query_embedding, response)
Add ==
    /\ Len(added) < MaxAdds
    /\ \E q \in Queries, response \in CacheResponses :
         /\ cache' = CacheAdd(cache, q, response, now)
         /\ added' = Append(added, NewEntry(q, response, now))
    /\ UNCHANGED <<now, lookup_arg, current_time, best_match, lookup_ret,
                   nonCacheVars>>

-----------------------------------------------------------------------------
(* RAG engine: process_query and its cache steps                            *)
(* (src/src/agents/rag_agent.py). Retrieval, reranking and merging are      *)
(* steps with any outcome; the cache steps are SemanticCache's.             *)

UseSemanticCache == TRUE
MinCachedAnswerLen == 50

MaxCalls == 2

\* what hybrid search returns: chunks, by name
CandidateLists == {<<>>, <<"c1">>, <<"c1", "c2">>}

\* what the LLM returns for the answer prompt
RagAnswers ==
    {"Diem chuan nam 2024 la 25,5 diem.",
     "Theo quy dinh tuyen sinh, thi sinh phai dat tieu chuan suc khoe loai 1 hoac loai 2.",
     "Theo Dieu 15 cua Thong tu, thi sinh dang ky so tuyen tai Ban chi huy quan su cap huyen."}

EmptyAnswer ==
    "Xin loi, toi khong tim thay thong tin phu hop trong van ban quy dinh. Ban co the thu hoi lai voi tu khoa cu the hon."

RagIntent(query) == "general"

FormatSources(chunks) == [n \in 1..Len(chunks) |-> [content |-> chunks[n]]]

\* a variant of EmptyResult that reports the missing documents as an error
EmptyResult_AsError(query, intent) ==
    Dict([query |-> query, answer |-> "", sources |-> <<>>, intent |-> intent,
          error |-> "no documents"])

EmptyResult(query, intent) ==
    Dict([query               |-> query,
          answer              |-> EmptyAnswer,
          sources             |-> <<>>,
          intent              |-> intent,
          documents_retrieved |-> 0,
          documents_relevant  |-> 0])

RagResult(query, answer, candidates, merged) ==
    Dict([query               |-> query,
          answer              |-> answer,
          sources             |-> FormatSources(merged),
          intent              |-> RagIntent(query),
          documents_retrieved |-> Len(candidates),
          documents_relevant  |-> Len(merged)])

\* if self.cache and merged and len(answer) > 50
ShouldCache(merged, answer) ==
    UseSemanticCache /\ merged # <<>> /\ Len(answer) > MinCachedAnswerLen

\* one finished call of process_query
CallRecord(called, steps, returned) ==
    [query    |-> rag_query,
     called   |-> called,
     returned |-> now,
     steps    |-> steps,
     result   |-> returned]

RagIdle ==
    /\ rag_pc = "idle"
    /\ rag_query = None
    /\ rag_called = 0
    /\ rag_candidates = <<>>
    /\ rag_merged = <<>>
    /\ rag_steps = <<>>
    /\ rag_log = <<>>

lookupVars == <<lookup_arg, current_time, best_match, lookup_ret>>

\* process_query up to the first await: the embedding and the cache check
RagProcessQuery ==
    /\ rag_pc = "idle"
    /\ Len(rag_log) < MaxCalls
    /\ \E q \in Queries :
         LET hit == IF UseSemanticCache
                    THEN CacheLookup(cache, Embedding(q), now)
                    ELSE None
         IN  /\ IF UseSemanticCache
                THEN /\ lookup_arg' = List(Embedding(q))
                     /\ current_time' = now
                     /\ best_match' = BestMatch(cache, Embedding(q), now).best_match
                     /\ lookup_ret' = hit
                     /\ cache' = CacheAfterLookup(cache, now)
                ELSE UNCHANGED <<lookupVars, cache>>
             /\ IF hit # None
                THEN /\ rag_log' = Append(rag_log,
                            [query |-> Str(q), called |-> now, returned |-> now,
                             steps |-> <<"cache">>, result |-> hit.v.response])
                     /\ UNCHANGED <<rag_pc, rag_query, rag_called, rag_steps>>
                ELSE /\ rag_pc' = "search"
                     /\ rag_query' = Str(q)
                     /\ rag_called' = now
                     /\ rag_steps' = <<"cache">>
                     /\ UNCHANGED rag_log
    /\ UNCHANGED <<rag_candidates, rag_merged, now, added, nonRagVars>>

\* steps 2 to 5.5: analysis, expansion, hybrid search, deduplication and
\* sibling enrichment
RagSearch ==
    /\ rag_pc = "search"
    /\ \E candidates \in CandidateLists :
         /\ rag_candidates' = candidates
         /\ IF candidates = <<>>
            THEN /\ rag_log' = Append(rag_log,
                        CallRecord(rag_called, Append(rag_steps, "retrieval"),
                                   EmptyResult(rag_query.v, RagIntent(rag_query.v))))
                 /\ rag_pc' = "idle"
                 /\ rag_steps' = <<>>
            ELSE /\ rag_pc' = "rerank"
                 /\ rag_steps' = Append(rag_steps, "retrieval")
                 /\ UNCHANGED rag_log
    /\ UNCHANGED <<rag_query, rag_called, rag_merged, cacheVars, nonRagVars>>

\* steps 6 to 8: reranking, smart merging, the context
RagRerank ==
    /\ rag_pc = "rerank"
    /\ \E merged \in {<<>>, rag_candidates} :
         /\ rag_merged' = merged
         /\ IF merged = <<>>
            THEN /\ rag_log' = Append(rag_log,
                        CallRecord(rag_called, Append(rag_steps, "rerank"),
                                   EmptyResult(rag_query.v, RagIntent(rag_query.v))))
                 /\ rag_pc' = "idle"
                 /\ rag_steps' = <<>>
            ELSE /\ rag_pc' = "generate"
                 /\ rag_steps' = Append(rag_steps, "rerank")
                 /\ UNCHANGED rag_log
    /\ UNCHANGED <<rag_query, rag_called, rag_candidates, cacheVars, nonRagVars>>

\* steps 9 and 10: the answer of the LLM, the result, the cache update
RagGenerate ==
    /\ rag_pc = "generate"
    /\ \E answer \in RagAnswers :
         LET rag_result == RagResult(rag_query.v, answer, rag_candidates, rag_merged)
         IN  /\ rag_log' = Append(rag_log,
                    CallRecord(rag_called, Append(rag_steps, "llm"), rag_result))
             /\ IF ShouldCache(rag_merged, answer)
                THEN /\ cache' = CacheAdd(cache, rag_query.v, rag_result, now)
                     /\ added' = Append(added, NewEntry(rag_query.v, rag_result, now))
                ELSE UNCHANGED <<cache, added>>
    /\ rag_pc' = "idle"
    /\ rag_steps' = <<>>
    /\ UNCHANGED <<rag_query, rag_called, rag_candidates, rag_merged, now,
                   lookupVars, nonRagVars>>

-----------------------------------------------------------------------------
(* Deduplication of chunks (src/src/agents/components/bm25.py)              *)
(*                                                                          *)
(* A text is the sequence of its words and punctuation marks.               *)

DedupThreshold == 85

MaxChunks == 3

\* the stopwords among the words of the texts below
VIETNAMESE_STOPWORDS == {"theo", "cho", "do"}

LowerWord(w) ==
    CASE w = "Diem" -> "diem"
      [] w = "Theo" -> "theo"
      [] OTHER      -> w

Punctuation == {",", "."}

\* BM25.tokenize: lower case, punctuation to blanks, split, stopwords and
\* one-letter words dropped
RECURSIVE Tokenize(_)
Tokenize(text) ==
    IF text = <<>> THEN <<>>
    ELSE LET t == LowerWord(Head(text))
         IN  IF t \in Punctuation \/ t \in VIETNAMESE_STOPWORDS \/ ~(Len(t) > 1)
             THEN Tokenize(Tail(text))
             ELSE <<t>> \o Tokenize(Tail(text))

\* chunk.get("content", "")
Content(chunk) == IF "content" \in DOMAIN chunk THEN chunk.content ELSE <<>>

TokenSet(chunk) == Range(Tokenize(Content(chunk)))

\* jaccard >= threshold, the threshold in percent:
\* len(intersection) / max(len(union), 1) >= threshold
JaccardAtLeast(a, b, threshold) ==
    LET intersection == a \cap b
        union == a \cup b
        size == IF Cardinality(union) > 1 THEN Cardinality(union) ELSE 1
    IN  Cardinality(intersection) * 100 >= threshold * size

\* a variant of IsDup that compares with the last accepted chunk only
IsDup_LastOnly(chunk, unique, threshold) ==
    LET chunk_tokens == TokenSet(chunk)
        existing_tokens == TokenSet(unique[Len(unique)])
    IN  /\ chunk_tokens # {} /\ existing_tokens # {}
        /\ JaccardAtLeast(chunk_tokens, existing_tokens, threshold)

\* the inner loop: is_dup
IsDup(chunk, unique, threshold) ==
    LET chunk_tokens == TokenSet(chunk)
    IN  \E n \in 1..Len(unique) :
            LET existing_tokens == TokenSet(unique[n])
            IN  /\ chunk_tokens # {} /\ existing_tokens # {}
                /\ JaccardAtLeast(chunk_tokens, existing_tokens, threshold)

\* the outer loop over chunks[1:]
RECURSIVE DedupLoop(_, _, _)
DedupLoop(chunks, unique, threshold) ==
    IF chunks = <<>> THEN unique
    ELSE DedupLoop(Tail(chunks),
                   IF IsDup(Head(chunks), unique, threshold)
                   THEN unique ELSE Append(unique, Head(chunks)),
                   threshold)

\* threshold or settings.dedup_threshold: the argument is None or a number,
\* in percent
EffectiveThreshold(threshold) ==
    IF threshold = None THEN DedupThreshold
    ELSE IF threshold.v = 0 THEN DedupThreshold
    ELSE threshold.v

DeduplicateChunks(chunks, threshold) ==
    IF chunks = <<>> THEN <<>>
    ELSE DedupLoop(Tail(chunks), <<Head(chunks)>>, EffectiveThreshold(threshold))

\* texts of six, seven, five and eight tokens, one of stopwords only, and a
\* chunk without content
ChunkTexts ==
    { <<"Diem", "chuan", "hoc", "vien", "ky", "thuat", ".">>,
      <<"diem", "chuan", "theo", "hoc", "vien", "ky", "thuat", ",", "nam">>,
      <<"diem", "chuan", "hoc", "vien", "ky">>,
      <<"diem", "chuan", "hoc", "vien", "ky", "thuat", "nam", "nay", "a">>,
      <<"Theo", "do", ",", "a">> }

Chunks == { [content |-> t] : t \in ChunkTexts } \cup { [score |-> 1] }

ChunkLists == UNION { [1..n -> Chunks] : n \in 0..MaxChunks }

DedupIdle ==
    /\ dedup_in = <<>>
    /\ dedup_out = None

\* a call deduplicate_chunks(candidates)
Deduplicate ==
    /\ dedup_out = None
    /\ dedup_out' = List(DeduplicateChunks(dedup_in, None))
    /\ UNCHANGED <<dedup_in, nonDedupVars>>

\* the next candidate list
NextCandidates ==
    /\ dedup_out # None
    /\ dedup_in' \in ChunkLists
    /\ dedup_out' = None
    /\ UNCHANGED nonDedupVars

-----------------------------------------------------------------------------
(* Smart merging of reranked chunks (src/src/agents/components/hierarchy.py) *)
(*                                                                          *)
(* A chunk is a record with an id, a content and a metadata record that     *)
(* holds the keys the chunk has.                                            *)

RerankerTopK == 3
AncestorMaxDepth == 5

MaxReranked == 4

\* settings.context_settings: the chunks allowed for each intent
ContextSettings ==
    [specific    |-> [chunks |-> 3],
     comparison  |-> [chunks |-> 4],
     list        |-> [chunks |-> 5],
     explanation |-> [chunks |-> 4],
     general     |-> [chunks |-> 3]]

QueryIntents == DOMAIN ContextSettings

\* one chapter with an article of two clauses and a paragraph without section
\* metadata, and a second article
LegalChunks ==
    { [id |-> "C1", content |-> "chuong", metadata |-> [chapter |-> "I"]],
      [id |-> "D1", content |-> "dieu",
       metadata |-> [parent_id |-> "C1", chapter |-> "I", article |-> "1"]],
      [id |-> "K1", content |-> "khoan",
       metadata |-> [parent_id |-> "D1", chapter |-> "I", article |-> "1", clause |-> "1"]],
      [id |-> "K2", content |-> "khoan",
       metadata |-> [parent_id |-> "D1", chapter |-> "I", article |-> "1", clause |-> "2"]],
      [id |-> "U1", content |-> "doan", metadata |-> [parent_id |-> "D1"]],
      [id |-> "D2", content |-> "dieu",
       metadata |-> [parent_id |-> "C1", chapter |-> "I", article |-> "2"]] }

\* get_store()["chunk_map"]: the chunks by id
ChunkMap == [i \in { c.id : c \in LegalChunks } |-> CHOOSE c \in LegalChunks : c.id = i]

\* metadata.get(key), "" for a missing key
MetaGet(chunk, key) ==
    IF "metadata" \in DOMAIN chunk /\ key \in DOMAIN chunk.metadata
    THEN chunk.metadata[key] ELSE ""

\* chunk.get("id") or chunk.get("metadata", {}).get("chunk_id")
ChunkId(chunk) ==
    IF "id" \in DOMAIN chunk /\ chunk.id # "" THEN chunk.id
    ELSE MetaGet(chunk, "chunk_id")

\* re.match(r"^[a-z]\)", content)
StartsAsPoint(content) == content \in {"a) diem"}

GetSectionType(chunk) ==
    IF MetaGet(chunk, "point") # "" \/ MetaGet(chunk, "point_number") # ""
       \/ StartsAsPoint(chunk.content) THEN "diem"
    ELSE IF MetaGet(chunk, "clause") # "" \/ MetaGet(chunk, "clause_number") # "" THEN "khoan"
    ELSE IF MetaGet(chunk, "article") # "" \/ MetaGet(chunk, "article_number") # "" THEN "dieu"
    ELSE IF MetaGet(chunk, "section") # "" \/ MetaGet(chunk, "section_number") # "" THEN "muc"
    ELSE IF MetaGet(chunk, "chapter") # "" \/ MetaGet(chunk, "chapter_number") # "" THEN "chuong"
    ELSE "unknown"

DepthMap == [chuong |-> 1, muc |-> 2, dieu |-> 3, khoan |-> 4, diem |-> 5, unknown |-> 0]

GetDepth(chunk) == DepthMap[GetSectionType(chunk)]

\* is_ancestor: the loop `for _ in range(max_depth)` with n passes left
RECURSIVE AncestorWalk(_, _, _)
AncestorWalk(ancestor_id, current, n) ==
    IF n = 0 THEN FALSE
    ELSE LET parent_id == MetaGet(current, "parent_id")
         IN  IF parent_id = "" THEN FALSE
             ELSE IF parent_id = ancestor_id THEN TRUE
             ELSE IF parent_id \notin DOMAIN ChunkMap THEN FALSE
             ELSE AncestorWalk(ancestor_id, ChunkMap[parent_id], n - 1)

IsAncestor(ancestor, descendant) ==
    AncestorWalk(ChunkId(ancestor), descendant, AncestorMaxDepth)

CheckHierarchyOverlap(chunk1, chunk2) ==
    IsAncestor(chunk1, chunk2) \/ IsAncestor(chunk2, chunk1)

\* list.remove(x): the first element equal to x is taken out
RemoveFirst(q, x) ==
    LET at == CHOOSE n \in 1..Len(q) : q[n] = x /\ \A m \in 1..(n - 1) : q[m] # x
    IN  SubSeq(q, 1, at - 1) \o SubSeq(q, at + 1, Len(q))

\* one pass of `for chunk in chunks[1:]`, up to the test of len(merged)
MergeOne(merged, chunk) ==
    LET overlapping == { n \in 1..Len(merged) : CheckHierarchyOverlap(chunk, merged[n]) }
    IN  IF overlapping = {}
        THEN Append(merged, chunk)
        ELSE LET existing == merged[CHOOSE n \in overlapping : \A m \in overlapping : n <= m]
             IN  IF GetDepth(chunk) > GetDepth(existing)
                 THEN Append(RemoveFirst(merged, existing), chunk)
                 ELSE merged

RECURSIVE MergeLoop(_, _, _)
MergeLoop(chunks, merged, max_chunks) ==
    IF chunks = <<>> THEN merged
    ELSE LET next == MergeOne(merged, Head(chunks))
         IN  IF Len(next) >= max_chunks THEN next
             ELSE MergeLoop(Tail(chunks), next, max_chunks)

\* q[:n]
Take(q, n) == SubSeq(q, 1, IF n < Len(q) THEN n ELSE Len(q))

\* a variant of MergeChunksSmart without the limit of max_chunks
MergeChunksSmart_NoLimit(chunks, context_settings) ==
    IF Len(chunks) <= 1 THEN chunks
    ELSE MergeLoop(Tail(chunks), <<Head(chunks)>>, Len(chunks) + 1)

MergeChunksSmart(chunks, context_settings) ==
    IF chunks = <<>> THEN <<>>
    ELSE LET max_chunks == context_settings.chunks
         IN  IF Len(chunks) <= 1 THEN Take(chunks, max_chunks)
             ELSE Take(MergeLoop(Tail(chunks), <<Head(chunks)>>, max_chunks), max_chunks)

\* the lists the reranker returns: chunks of the store, each at most once
RerankedLists ==
    { q \in UNION { [1..n -> LegalChunks] : n \in 0..MaxReranked } :
        \A i, j \in 1..Len(q) : i # j => q[i] # q[j] }

MergeIdle ==
    /\ merge_in = <<>>
    /\ merge_intent = "general"
    /\ merge_out = None

\* process_query steps 7 to 9: merged and the sources made from it
MergeStep ==
    /\ merge_out = None
    /\ merge_out' = Dict([merged  |-> MergeChunksSmart(merge_in, ContextSettings[merge_intent]),
                          sources |-> FormatSources(
                              MergeChunksSmart(merge_in, ContextSettings[merge_intent]))])
    /\ UNCHANGED <<merge_in, merge_intent, nonMergeVars>>

\* the next query of the same intent, for which the reranker puts the first
\* chunk last
NextReranked ==
    /\ merge_out # None
    /\ merge_in' = IF merge_in = <<>> THEN <<>>
                   ELSE Append(Tail(merge_in), Head(merge_in))
    /\ merge_out' = None
    /\ UNCHANGED <<merge_intent, nonMergeVars>>

-----------------------------------------------------------------------------
(* In-memory store and its chunk_map                                        *)
(* (src/src/agents/components/vector_store.py)                              *)
(*                                                                          *)
(* A chunk of the JSON file has an id, a metadata record with the keys it   *)
(* holds and children_ids, None when the chunk has no such key.             *)

MaxInput == 2

ChunkIds == {"a", "b"}

\* the values of metadata.parent_id in the file: no parent, a chunk of the
\* file, an id that no chunk has
ParentIds == {"", "a", "b", "x"}

FileChunk(id, parent_id, children_ids) ==
    [id           |-> id,
     metadata     |-> IF parent_id = "" THEN [source |-> "f"]
                      ELSE [source |-> "f", parent_id |-> parent_id],
     children_ids |-> children_ids]

FileChunks ==
    { FileChunk(i, p, c) : i \in ChunkIds, p \in ParentIds, c \in {None, List(<<"b">>)} }

\* json.load(f): a list of chunks
JsonInputs == UNION { [1..n -> FileChunks] : n \in 0..MaxInput }

\* the keys of the dict filled by `chunk_map[chunk_id] = chunk`, in the order
\* in which they were first set
RECURSIVE KeyOrder(_, _)
KeyOrder(chunks, seen) ==
    IF chunks = <<>> THEN seen
    ELSE LET chunk_id == ChunkId(Head(chunks))
         IN  KeyOrder(Tail(chunks),
                      IF chunk_id = "" \/ \E n \in 1..Len(seen) : seen[n] = chunk_id
                      THEN seen ELSE Append(seen, chunk_id))

\* the first loop of _build_chunk_map: the last chunk of an id stays
ChunkMapOf(chunks) ==
    [i \in { ChunkId(chunks[n]) : n \in 1..Len(chunks) } \ {""} |->
        LET last == CHOOSE n \in 1..Len(chunks) :
                        /\ ChunkId(chunks[n]) = i
                        /\ \A m \in (n + 1)..Len(chunks) : ChunkId(chunks[m]) # i
        IN  chunks[last]]

\* parent["children_ids"] after the body of the second loop for one child
WithChild(parent, chunk_id) ==
    LET children_ids == IF parent.children_ids = None THEN <<>> ELSE parent.children_ids.v
    IN  [parent EXCEPT !.children_ids =
            List(IF \E n \in 1..Len(children_ids) : children_ids[n] = chunk_id
                 THEN children_ids ELSE Append(children_ids, chunk_id))]

\* the second loop of _build_chunk_map over the keys left
RECURSIVE LinkChildren(_, _)
LinkChildren(chunk_map, keys) ==
    IF keys = <<>> THEN chunk_map
    ELSE LET chunk_id  == Head(keys)
             parent_id == MetaGet(chunk_map[chunk_id], "parent_id")
         IN  LinkChildren(
                 IF parent_id # "" /\ parent_id \in DOMAIN chunk_map
                 THEN [chunk_map EXCEPT ![parent_id] = WithChild(@, chunk_id)]
                 ELSE chunk_map,
                 Tail(keys))

BuildChunkMap(chunks) == LinkChildren(ChunkMapOf(chunks), KeyOrder(chunks, <<>>))

\* clear_store
StoreIdle ==
    /\ store_in = <<>>
    /\ store_chunks = <<>>
    /\ store_chunk_map = <<>>
    /\ store_loaded = FALSE
    /\ store_exc = None
    /\ store_pc = "start"

\* load_from_json raising ValueError("No chunks found in JSON file")
LoadNoChunks ==
    /\ store_pc = "start"
    /\ store_in = <<>>
    /\ store_exc' = Str("ValueError")
    /\ store_pc' = "done"
    /\ UNCHANGED <<store_in, store_chunks, store_chunk_map, store_loaded, nonStoreVars>>

\* load_from_json with chunks; the embedding service and Qdrant answer or raise
LoadFromJson ==
    /\ store_pc = "start"
    /\ store_in # <<>>
    /\ store_chunks' = store_in
    /\ store_chunk_map' = BuildChunkMap(store_in)
    /\ \E services_ok \in BOOLEAN :
         /\ store_loaded' = services_ok
         /\ store_exc' = IF services_ok THEN None ELSE Str("Exception")
    /\ store_pc' = "done"
    /\ UNCHANGED <<store_in, nonStoreVars>>

\* clear_store, before the file is loaded again
ClearStore ==
    /\ store_pc = "done"
    /\ store_chunks' = <<>>
    /\ store_chunk_map' = <<>>
    /\ store_loaded' = FALSE
    /\ store_exc' = None
    /\ store_pc' = "start"
    /\ UNCHANGED <<store_in, nonStoreVars>>

-----------------------------------------------------------------------------
(* Reciprocal rank fusion (src/src/agents/components/bm25.py)               *)
(*                                                                          *)
(* A ranked list is a sequence of (doc_index, score) pairs.  A fused score  *)
(* is kept as the number of ScoreUnit(k)-ths it is worth, where ScoreUnit(k)*)
(* is a multiple of every k + rank + 1 that occurs.                         *)

RrfK == 60

MaxRanked == 3

DocIndexes == 0..2

\* a list as a search returns it: the documents with falling scores
Ranked(docs) == [n \in 1..Len(docs) |-> <<docs[n], MaxRanked + 1 - n>>]

RankedLists == { Ranked(d) : d \in UNION { [1..n -> DocIndexes] : n \in 0..MaxRanked } }

\* the k given by the caller: none, or one of its own
GivenKs == {None, PyInt(1)}

\* k = k or settings.rrf_k
EffectiveK(k) == IF k = None \/ k.v = 0 THEN RrfK ELSE k.v

RECURSIVE ProductOf(_, _)
ProductOf(from, to) == IF from > to THEN 1 ELSE from * ProductOf(from + 1, to)

ScoreUnit(k) == ProductOf(k + 1, k + MaxRanked)

\* a variant of RrfTerm that counts every rank as the first
RrfTerm_FirstRank(k, rank) == ScoreUnit(k) \div (k + 1)

\* 1.0 / (k + rank + 1)
RrfTerm(k, rank) == ScoreUnit(k) \div (k + rank + 1)

\* the inner loop over one ranked list: enumerate gives ranks from 0
RECURSIVE AddList(_, _, _, _)
AddList(rrf_scores, ranked_list, rank, k) ==
    IF rank >= Len(ranked_list) THEN rrf_scores
    ELSE LET doc_idx == ranked_list[rank + 1][1]
             at == { n \in 1..Len(rrf_scores) : rrf_scores[n][1] = doc_idx }
             next == IF at = {}
                     THEN Append(rrf_scores, <<doc_idx, 0 + RrfTerm(k, rank)>>)
                     ELSE [rrf_scores EXCEPT ![CHOOSE n \in at : TRUE] =
                               <<doc_idx, @[2] + RrfTerm(k, rank)>>]
         IN  AddList(next, ranked_list, rank + 1, k)

\* the outer loop: rrf_scores.items() in the order of insertion
RECURSIVE AddLists(_, _, _)
AddLists(rrf_scores, ranked_lists, k) ==
    IF ranked_lists = <<>> THEN rrf_scores
    ELSE AddLists(AddList(rrf_scores, Head(ranked_lists), 0, k), Tail(ranked_lists), k)

\* sorted(items, key=lambda x: x[1], reverse=True): equal scores keep their order
SortedByScore(items) ==
    LET before(n) == Cardinality({ m \in 1..Len(items) :
                         \/ items[m][2] > items[n][2]
                         \/ items[m][2] = items[n][2] /\ m < n })
    IN  [p \in 1..Len(items) |-> items[CHOOSE n \in 1..Len(items) : before(n) = p - 1]]

ReciprocalRankFusion(ranked_lists, k) ==
    SortedByScore(AddLists(<<>>, ranked_lists, EffectiveK(k)))

RrfIdle ==
    /\ rrf_lists = <<<<>>, <<>>>>
    /\ rrf_k = None
    /\ rrf_out = None

\* fused = reciprocal_rank_fusion([dense_for_rrf, bm25_for_rrf])
Fuse ==
    /\ rrf_out = None
    /\ rrf_out' = List(ReciprocalRankFusion(rrf_lists, rrf_k))
    /\ UNCHANGED <<rrf_lists, rrf_k, nonRrfVars>>

\* the sparse list of the next search
NextSparse ==
    /\ rrf_out # None
    /\ \E l \in RankedLists : rrf_lists' = <<rrf_lists[1], l>>
    /\ rrf_out' = None
    /\ UNCHANGED <<rrf_k, nonRrfVars>>

-----------------------------------------------------------------------------
(* Chat endpoint and the stored transcript (src/src/api/chat.py)            *)
(*                                                                          *)
(* Every request runs the handler `chat` with a database session of its     *)
(* own; the requests share one session_id.  A row of chat_history gets its  *)
(* id when its INSERT runs at the database and is read by others once the   *)
(* request has committed.                                                   *)

MaxRequests == 2

Requests == 1..MaxRequests

\* request.message of a request
MessageOf(r) == <<"message", r>>

\* what supervisor.process returns: it catches its own exceptions
SupervisorResults ==
    { [response |-> Str("answer"), intent |-> Str("diem_chuan"), error |-> None],
      [response |-> Str("sorry"), intent |-> None, error |-> Str("failed")] }

\* ChatHistory(session_id, role, content) with the id given at the INSERT
HistoryRow(id, r, role, content) ==
    [id |-> id, request |-> r, role |-> role, content |-> content, committed |-> FALSE]

\* raise HTTPException(status_code=500, ...)
Http500 == [status_code |-> 500, detail |-> Str("Loi xu ly tin nhan")]

\* ChatResponse(response=result.get("response", ...), ...)
ChatResponseOf(returned) ==
    [status_code |-> 200, response |-> returned.response, intent |-> returned.intent]

\* session.rollback(): the rows of the request's transaction are gone
Rollback(rows, r) == SelectSeq(rows, LAMBDA row : row.request # r \/ row.committed)

\* session.commit(): the rows of the request's transaction are stored
Commit(rows, r) ==
    [n \in 1..Len(rows) |->
        IF rows[n].request = r THEN [rows[n] EXCEPT !.committed = TRUE] ELSE rows[n]]

\* get_chat_history: the stored rows by id
Transcript == SelectSeq(chat_rows, LAMBDA row : row.committed)

ChatIdle ==
    /\ chat_pc = [r \in Requests |-> "new"]
    /\ chat_arrived = <<>>
    /\ chat_rows = <<>>
    /\ chat_next_id = 1
    /\ chat_result = [r \in Requests |-> None]
    /\ chat_reply = [r \in Requests |-> None]
    /\ chat_log = <<>>

\* the request arrives and the handler runs to `await session.flush()`
ChatArrive(r) ==
    /\ chat_pc[r] = "new"
    /\ chat_pc' = [chat_pc EXCEPT ![r] = "flush"]
    /\ chat_arrived' = Append(chat_arrived, r)
    /\ UNCHANGED <<chat_rows, chat_next_id, chat_result, chat_reply, chat_log, nonChatVars>>

\* the INSERT of the user message runs at the database
ChatFlushUser(r) ==
    /\ chat_pc[r] = "flush"
    /\ chat_rows' = Append(chat_rows, HistoryRow(chat_next_id, r, "user", MessageOf(r)))
    /\ chat_next_id' = chat_next_id + 1
    /\ chat_pc' = [chat_pc EXCEPT ![r] = "process"]
    /\ UNCHANGED <<chat_arrived, chat_result, chat_reply, chat_log, nonChatVars>>

\* supervisor.process returns
ChatProcess(r) ==
    /\ chat_pc[r] = "process"
    /\ \E returned \in SupervisorResults :
         chat_result' = [chat_result EXCEPT ![r] = returned]
    /\ chat_pc' = [chat_pc EXCEPT ![r] = "commit"]
    /\ UNCHANGED <<chat_arrived, chat_rows, chat_next_id, chat_reply, chat_log, nonChatVars>>

\* the INSERT of the assistant message and the commit, and the response
ChatCommit(r) ==
    /\ chat_pc[r] = "commit"
    /\ chat_rows' = Commit(Append(chat_rows,
                        HistoryRow(chat_next_id, r, "assistant", chat_result[r].response)), r)
    /\ chat_next_id' = chat_next_id + 1
    /\ chat_reply' = [chat_reply EXCEPT ![r] = ChatResponseOf(chat_result[r])]
    /\ chat_pc' = [chat_pc EXCEPT ![r] = "done"]
    /\ UNCHANGED <<chat_arrived, chat_result, chat_log, nonChatVars>>

\* a write to chat_history raises at the flush or at the commit:
\* except Exception: logger.error, rollback, HTTPException
ChatWriteFails(r) ==
    /\ chat_pc[r] \in {"flush", "commit"}
    /\ chat_log' = Append(chat_log, [level |-> "error", request |-> r, at |-> chat_pc[r]])
    /\ chat_rows' = Rollback(chat_rows, r)
    /\ chat_reply' = [chat_reply EXCEPT ![r] = Http500]
    /\ chat_pc' = [chat_pc EXCEPT ![r] = "failed"]
    /\ UNCHANGED <<chat_arrived, chat_next_id, chat_result, nonChatVars>>

-----------------------------------------------------------------------------
(* Supervisor: the conversation state of a session                          *)
(* (src/src/agents/supervisor.py)                                           *)
(*                                                                          *)
(* The graph is compiled with a MemorySaver, and process runs it under the  *)
(* thread_id of the session: the channel "messages" of ConversationState    *)
(* has the reducer operator.add, so what a run writes to it is appended to  *)
(* what the thread holds.                                                   *)

MaxTurns == 2

UserQueries == {"q1", "q2"}

\* {"role": "user", "content": query}
UserMessage(query) == [role |-> "user", content |-> Str(query)]

\* messages: Annotated[list[dict], operator.add], applied to a write
AddMessages(messages, write) ==
    IF "messages" \in DOMAIN write THEN messages \o write.messages ELSE messages

\* the input of graph.ainvoke, as far as it is kept in the thread
InitialWrite(query) == [messages |-> <<UserMessage(query)>>, current_query |-> Str(query)]

SessionIdle ==
    /\ session_messages = <<>>
    /\ session_query = None
    /\ session_before = <<>>
    /\ session_history = None

\* process up to graph.ainvoke taking the input
SessionProcess ==
    /\ pc = "idle"
    /\ Len(session_messages) < MaxTurns
    /\ \E query \in UserQueries :
         /\ session_messages' = AddMessages(session_messages, InitialWrite(query))
         /\ session_query' = InitialWrite(query).current_query
    /\ session_before' = session_messages
    /\ pc' = "route"
    /\ state' = InitialState
    /\ exc' = None
    /\ result' = None
    /\ visited' = <<>>
    /\ llm_calls' = {}
    /\ router_result' = None
    /\ failed' = {}
    /\ UNCHANGED <<session_history, sqlVars, tblVars, cacheVars, ragVars, dedupVars,
                   mergeVars, storeVars, rrfVars, chatVars, deadlineVars, lateVars>>

\* get_history with self.memory set
GetHistory ==
    /\ pc = "idle"
    /\ session_history' = List(session_messages)
    /\ UNCHANGED <<session_messages, session_query, session_before, earlierVars,
                   mergeVars, storeVars, rrfVars, chatVars, deadlineVars, lateVars>>

-----------------------------------------------------------------------------
(* RAG engine: the deadlines of the external calls                          *)
(* (src/src/agents/rag_agent.py, src/src/core/llm.py)                       *)
(*                                                                          *)
(* While process_query waits at an await, the call it waits for is          *)
(* outstanding: the vector search at "search", the reranker at "rerank",    *)
(* the LLM at "generate".  The code sets no timeout on any of them, so the  *)
(* passing of a deadline changes nothing the code holds.                    *)

\* the number of the call of process_query that is running
RunningCall == Len(rag_log) + 1

DeadlineIdle == rag_overdue = None

\* the deadline of the outstanding call passes before the call returns
DeadlinePasses ==
    /\ rag_pc \in {"search", "rerank", "generate"}
    /\ IF rag_overdue = None THEN TRUE ELSE rag_overdue.call # RunningCall
    /\ rag_overdue' = [t |-> "overdue", call |-> RunningCall, stage |-> rag_pc]
    /\ UNCHANGED <<earlierVars, mergeVars, storeVars, rrfVars, chatVars, sessionVars, lateVars>>

\* entity extraction before any call
KhoiIdle == khoi_query = <<>> /\ khoi_entities = None

\* the grader was not called
NotCalled == [t |-> "not called"]

\* the grader call raised
CallRaised == [t |-> "raised"]

\* validation before any call
ValidateIdle == val_sql = None /\ val_grader = NotCalled /\ val_out = None

\* navigation before any call
NavIdle ==
    /\ nav_built = <<>>
    /\ nav_map = <<>>
    /\ nav_pc = "idle"
    /\ nav_chunk = ""
    /\ nav_other = ""
    /\ nav_current = ""
    /\ nav_parents = <<>>
    /\ nav_steps = None
    /\ nav_found = None
    /\ nav_queue = <<>>
    /\ nav_visited = {}
    /\ nav_descendants = <<>>
    /\ nav_enriched = None

\* the memory of the sessions before any call
MemIdle ==
    /\ mem_store = <<>>
    /\ mem_run = <<>>
    /\ mem_seen = <<>>
    /\ mem_history = <<>>

LateIdle == KhoiIdle /\ ValidateIdle /\ NavIdle /\ MemIdle

\* the components modelled after deduplication, before any call
MidIdle == MergeIdle /\ StoreIdle /\ RrfIdle /\ ChatIdle /\ SessionIdle /\ DeadlineIdle
MoreIdle == MidIdle /\ LateIdle

-----------------------------------------------------------------------------
(* Supervisor: actions *)

GraphNodes ==
    {"route", "sql_agent", "rag_agent", "general", "school_info", "combine",
     "clarify"}

\* a node returned upd and the graph follows the edge to `next`; fails are
\* the steps that failed inside the node, llm the prompts it sent to the LLM
NodeStep(node, upd, next, fails, llm) ==
    /\ state' = Update(state, upd)
    /\ pc' = next
    /\ visited' = Append(visited, node)
    /\ failed' = failed \cup fails
    /\ llm_calls' = llm_calls \cup llm
    /\ UNCHANGED <<exc, result, nonSupVars>>

\* a node raised: graph.ainvoke raises into process
NodeRaises(node, fails, llm) ==
    /\ pc' = "raised"
    /\ exc' = Str("llm error")
    /\ visited' = Append(visited, node)
    /\ failed' = failed \cup fails
    /\ llm_calls' = llm_calls \cup llm
    /\ UNCHANGED <<state, result, nonSupVars>>

\* SupervisorAgent.process, up to the call of graph.ainvoke
Process ==
    /\ pc = "idle"
    /\ pc' = "route"
    /\ state' = InitialState
    /\ exc' = None
    /\ result' = None
    /\ visited' = <<>>
    /\ llm_calls' = {}
    /\ router_result' = None
    /\ failed' = {}
    /\ UNCHANGED nonSupVars

\* the route node after an update was chosen: _decide_next picks the edge
RouteStep(upd, fails, llm) ==
    NodeStep("route", upd, RouteEdges(DecideNext(Update(state, upd))), fails, llm)

\* the rest of the route node once the router is done: the LLM planner
\* answers, or raises (the call, the JSON parse or the agent lookup)
RoutePlanner(rfail) ==
    \/ \E reply \in PlannerReplies :
         IF PlannerLookupRaises(reply)
         THEN RouteStep(PlannerFailedUpdate, rfail \cup {"planner"}, {"planner"})
         ELSE RouteStep(PlannerUpdate(reply), rfail, {"planner"})
    \/ RouteStep(PlannerFailedUpdate, rfail \cup {"planner"}, {"planner"})

\* route node, the router answered
RouteNodeRouted ==
    /\ pc = "route"
    /\ \E routes \in RouteLists :
         \E scores \in [Range(routes) -> ScoreLevels] :
           LET rr == RouterRoute(routes, scores) IN
             /\ router_result' = Dict([ intent     |-> rr.v.intent,
                                        confidence |-> rr.v.confidence ])
             /\ IF TableAccepts(rr)
                THEN RouteStep(TableUpdate(rr), {}, {})
                ELSE RoutePlanner({})

\* route node, the router raised (embedding service or vector store down)
RouteNodeRouterFailed ==
    /\ pc = "route"
    /\ router_result' = None
    /\ RoutePlanner({"router"})

\* sql node and the edge after it
SqlNode ==
    /\ pc = "sql_agent"
    /\ \E out \in SqlReturns :
         NodeStep("sql_agent", SqlNodeUpdate(out),
                  SqlEdges(AfterSql(Update(state, SqlNodeUpdate(out)))),
                  IF "error" \in DOMAIN out.v THEN {"sql"} ELSE {}, {})
    /\ UNCHANGED router_result

\* rag node and the edge to combine
RagNode ==
    /\ pc = "rag_agent"
    /\ \/ \E out \in RagReturns :
             NodeStep("rag_agent", RagNodeUpdate(out), "combine", {}, {})
       \/ NodeStep("rag_agent", RagNodeFailedUpdate, "combine", {"rag"}, {})
    /\ UNCHANGED router_result

\* general node and the edge to END; the LLM call is not guarded
GeneralNode ==
    /\ pc = "general"
    /\ \/ \E text \in LlmTexts :
             NodeStep("general", [response |-> text], "END", {}, {"general"})
       \/ NodeRaises("general", {"general"}, {"general"})
    /\ UNCHANGED router_result

\* school_info node and the edge after it: a school matched and the LLM
\* answered; or no school matched; or the database raised; or the LLM raised
SchoolInfoNode ==
    /\ pc = "school_info"
    /\ \/ \E text \in LlmTexts :
             NodeStep("school_info", SchoolInfoUpdate(text),
                      SchoolInfoEdges(AfterSchoolInfo(Update(state, SchoolInfoUpdate(text)))),
                      {}, {"school_info"})
       \/ NodeStep("school_info", <<>>, SchoolInfoEdges(AfterSchoolInfo(state)),
                   {}, {})
       \/ NodeStep("school_info", <<>>, SchoolInfoEdges(AfterSchoolInfo(state)),
                   {"school_info"}, {})
       \/ NodeStep("school_info", <<>>, SchoolInfoEdges(AfterSchoolInfo(state)),
                   {"school_info"}, {"school_info"})
    /\ UNCHANGED router_result

\* combine node and the edge to END; the LLM is called in the merge branch
CombineNode ==
    /\ pc = "combine"
    /\ IF CombineBranch(state) = "merge"
       THEN \/ \E text \in LlmTexts :
                 NodeStep("combine", CombineUpdate(state, text), "END",
                          {}, {"combine"})
            \/ NodeRaises("combine", {"combine"}, {"combine"})
       ELSE NodeStep("combine", CombineUpdate(state, None), "END", {}, {})
    /\ UNCHANGED router_result

\* clarify node and the edge to END
ClarifyNode ==
    /\ pc = "clarify"
    /\ NodeStep("clarify", ClarifyUpdate, "END", {}, {})
    /\ UNCHANGED router_result

\* SupervisorAgent.process, after graph.ainvoke
ProcessReturn ==
    /\ pc \in {"END", "raised"}
    /\ pc' = "idle"
    /\ result' = IF pc = "END" THEN ProcessResult(state)
                                ELSE ProcessFailedResult(exc)
    /\ UNCHANGED <<state, exc, visited, llm_calls, router_result, failed, nonSupVars>>

\* the SQL engine before process_query is called
SqlIdle ==
    /\ sql_pc = "idle"
    /\ entities = EmptyDict
    /\ attempt = 0
    /\ error_history = <<>>
    /\ error_context = <<>>
    /\ sql = None
    /\ results = None
    /\ db_sent = None
    /\ sql_return = None

\* the supervisor before process is called
SupIdle ==
    /\ pc = "idle"
    /\ state = InitialState
    /\ exc = None
    /\ result = None
    /\ visited = <<>>
    /\ llm_calls = {}
    /\ router_result = None
    /\ failed = {}

Init ==
    /\ SupIdle
    /\ SqlIdle
    /\ TableIdle
    /\ CacheIdle
    /\ RagIdle
    /\ DedupIdle
    /\ MoreIdle

GraphStep ==
    \/ RouteNodeRouted
    \/ RouteNodeRouterFailed
    \/ SqlNode
    \/ RagNode
    \/ GeneralNode
    \/ SchoolInfoNode
    \/ CombineNode
    \/ ClarifyNode
    \/ ProcessReturn

Next == Process \/ GraphStep

Spec == Init /\ [][Next]_vars

\* the graph runtime runs the next node whenever one is due
FairSpec == Spec /\ WF_vars(GraphStep)

-----------------------------------------------------------------------------
(* The nodes after route as a transition function: each of them started on *)
(* any intent and, for rag_agent, on any result the sql node may have left *)

NodeIntents == { Str(a) : a \in PlannerAgents \cup IntentNames }

InitNodes ==
    /\ pc \in {"sql_agent", "school_info", "rag_agent"}
    /\ \E intent \in NodeIntents, out \in SqlReturns \cup {None} :
         state = IF pc = "rag_agent" /\ out # None
                 THEN Update([InitialState EXCEPT !.intent = intent],
                             SqlNodeUpdate(out))
                 ELSE [InitialState EXCEPT !.intent = intent]
    /\ exc = None
    /\ result = None
    /\ visited = <<>>
    /\ llm_calls = {}
    /\ router_result = None
    /\ failed = {}
    /\ SqlIdle
    /\ TableIdle
    /\ CacheIdle
    /\ RagIdle
    /\ DedupIdle
    /\ MoreIdle

NextNodes ==
    \/ SqlNode
    \/ RagNode
    \/ SchoolInfoNode
    \/ CombineNode
    \/ ProcessReturn

SpecNodes == InitNodes /\ [][NextNodes]_vars

-----------------------------------------------------------------------------
(* The SQL engine alone: process_query called on any query *)

NextSQL ==
    \/ ProcessQuery
    \/ GenerateSql
    \/ ValidateSql
    \/ ExecuteSql
    \/ GenerateAnswer
    \/ ReturnFailure

SpecSQL == Init /\ [][NextSQL]_vars

\* an attempt that started runs to its end
FairSpecSQL ==
    SpecSQL /\ WF_vars(GenerateSql \/ ValidateSql \/ ExecuteSql
                                   \/ GenerateAnswer \/ ReturnFailure)

-----------------------------------------------------------------------------
(* The table builder alone: built on any rows, then on the same rows in    *)
(* any other order                                                         *)

RowLists == UNION { [1..n -> TableRows] : n \in 1..MaxRows }

InitTable ==
    /\ SupIdle
    /\ SqlIdle
    /\ CacheIdle
    /\ RagIdle
    /\ DedupIdle
    /\ MoreIdle
    /\ table_in \in RowLists
    /\ table_out = None
    /\ table_first = None

NextTable == BuildTable \/ BuildTableReordered

SpecTable == InitTable /\ [][NextTable]_vars

\* the cache is empty or full
InitCache ==
    /\ SupIdle
    /\ SqlIdle
    /\ TableIdle
    /\ RagIdle
    /\ DedupIdle
    /\ MoreIdle
    /\ cache \in {Prefilled(0), Prefilled(CacheCapacity)}
    /\ now = 0
    /\ added = <<>>
    /\ lookup_arg = None
    /\ current_time = 0
    /\ best_match = None
    /\ lookup_ret = None

NextCache == Tick \/ Lookup \/ Add

SpecCache == InitCache /\ [][NextCache]_vars

\* time passes between the calls of process_query
NextRag ==
    \/ rag_pc = "idle" /\ Tick
    \/ RagProcessQuery
    \/ RagSearch
    \/ RagRerank
    \/ RagGenerate

SpecRag == Init /\ [][NextRag]_vars

InitDedup ==
    /\ SupIdle
    /\ SqlIdle
    /\ TableIdle
    /\ CacheIdle
    /\ RagIdle
    /\ dedup_in \in ChunkLists
    /\ dedup_out = None
    /\ MoreIdle

NextDedup == Deduplicate \/ NextCandidates

SpecDedup == InitDedup /\ [][NextDedup]_vars

\* every component but the named ones before any call
EarlierIdle ==
    /\ SupIdle
    /\ SqlIdle
    /\ TableIdle
    /\ CacheIdle
    /\ RagIdle
    /\ DedupIdle

InitMerge ==
    /\ EarlierIdle
    /\ StoreIdle
    /\ RrfIdle
    /\ ChatIdle
    /\ SessionIdle
    /\ DeadlineIdle
    /\ LateIdle
    /\ merge_in \in RerankedLists
    /\ merge_intent \in QueryIntents
    /\ merge_out = None

NextMerge == MergeStep \/ NextReranked

SpecMerge == InitMerge /\ [][NextMerge]_vars

InitStore ==
    /\ EarlierIdle
    /\ MergeIdle
    /\ RrfIdle
    /\ ChatIdle
    /\ SessionIdle
    /\ DeadlineIdle
    /\ LateIdle
    /\ store_in \in JsonInputs
    /\ store_chunks = <<>>
    /\ store_chunk_map = <<>>
    /\ store_loaded = FALSE
    /\ store_exc = None
    /\ store_pc = "start"

NextStore == LoadNoChunks \/ LoadFromJson \/ ClearStore

SpecStore == InitStore /\ [][NextStore]_vars

InitRrf ==
    /\ EarlierIdle
    /\ MergeIdle
    /\ StoreIdle
    /\ ChatIdle
    /\ SessionIdle
    /\ DeadlineIdle
    /\ LateIdle
    /\ rrf_lists \in RankedLists \X RankedLists
    /\ rrf_k \in GivenKs
    /\ rrf_out = None

NextRrf == Fuse \/ NextSparse

SpecRrf == InitRrf /\ [][NextRrf]_vars

NextChat ==
    \E r \in Requests :
        \/ ChatArrive(r)
        \/ ChatFlushUser(r)
        \/ ChatProcess(r)
        \/ ChatCommit(r)
        \/ ChatWriteFails(r)

SpecChat == Init /\ [][NextChat]_vars

NextSession == SessionProcess \/ GraphStep \/ GetHistory

SpecSession == Init /\ [][NextSession]_vars

NextRagDeadline == NextRag \/ DeadlinePasses

SpecRagDeadline == Init /\ [][NextRagDeadline]_vars

-----------------------------------------------------------------------------
(* Claims about the Supervisor workflow *)

FirstAgentNodes == {"sql_agent", "rag_agent", "school_info", "general", "clarify"}

\* C1: whatever the router and the planner do (any intent and confidence,
\* any planner answer, either of them failing), the run starts with route
\* and the node executed right after route is one of sql, rag, school_info,
\* general, clarify; the run never ends or fails right after route.
C1_FirstNodeAfterRoute ==
    /\ (Len(visited) >= 1 => visited[1] = "route")
    /\ (Len(visited) = 1 => pc \in FirstAgentNodes)
    /\ (Len(visited) >= 2 => visited[2] \in FirstAgentNodes)

\* both the router and the planner failed and general ran first
C1_Witness ==
    /\ Len(visited) >= 2
    /\ visited[2] = "general"
    /\ {"router", "planner"} \subseteq failed

\* C2: every run terminates: from route the run reaches END (or the node
\* that is running raises) after finitely many node executions, no node is
\* executed twice, route is executed exactly once and first, and no edge
\* leads from a node into route.
C2_RunTerminates ==
    /\ [](/\ (pc \notin {"idle", "route"} =>
                 Len(visited) >= 1 /\ visited[1] = "route")
          /\ \A i, j \in 1..Len(visited) : i # j => visited[i] # visited[j])
    /\ [][pc' = "route" => pc = "idle"]_vars
    /\ ((pc = "route") ~> (pc \in {"END", "raised"}))

\* a run of the longest kind ended
C2_Witness == pc = "END" /\ Len(visited) = 4

\* the table of the claim, for the route names of the model
C3_ClaimedAgent(name) ==
    CASE name \in {"score_lookup", "quota_region", "comparison"} -> "sql"
      [] name \in {"regulation_health", "procedure_new", "faq_new", "priority"}
           -> "rag"
      [] name = "school_info" -> "school_info"
      [] name \in {"greeting", "about", "unclear"} -> "general"

C3_NodeOf(agent) ==
    CASE agent = "sql" -> "sql_agent"
      [] agent = "rag" -> "rag_agent"
      [] agent = "school_info" -> "school_info"
      [] agent = "general" -> "general"

\* C3: when the router returned an intent with confidence >= 0.85, the
\* planner is not consulted, the run's intent is the router's, and the agent
\* and the first node are those of the fixed table.
C3_HighConfidenceUsesTable ==
    (/\ Len(visited) >= 1
     /\ router_result # None
     /\ router_result.v.confidence >= RouterThreshold)
    => /\ "planner" \notin llm_calls
       /\ state.intent = router_result.v.intent
       /\ state.agent_type = Str(C3_ClaimedAgent(router_result.v.intent.v))
       /\ (Len(visited) >= 2 =>
             visited[2] = C3_NodeOf(C3_ClaimedAgent(router_result.v.intent.v)))

\* confidence exactly 0.85, an intent only the name pattern catches
C3_Witness ==
    /\ Len(visited) >= 2
    /\ router_result # None
    /\ router_result.v.confidence = RouterThreshold
    /\ router_result.v.intent = Str("quota_region")
    /\ visited[2] = "sql_agent"

C5_AfterSchoolInfo ==
    [][/\ (pc = "school_info" =>
             IF Truthy(state'.response) THEN pc' = "END" ELSE pc' = "rag_agent")
       /\ (pc = "rag_agent" => pc' = "combine")]_vars

\* the lookup failed and rag, then combine, ran
C5_Witness ==
    /\ visited = <<"route", "school_info", "rag_agent", "combine">>
    /\ "school_info" \in failed

\* C6: combine answers with RAG's answer when SQL has no rows and RAG has an
\* answer, with SQL's answer when RAG has none and SQL has one; the LLM
\* merge happens exactly when SQL has rows and RAG has an answer (then both
\* engines produced an answer), and then the sources are the RAG sources
\* followed by the SQL source.
C6_Combine ==
    [][(pc = "combine" /\ pc' = "END") =>
          LET sql_result == OrEmptyDict(state.sql_result)
              rag_result == OrEmptyDict(state.rag_result)
              sql_rows   == Truthy(Get(sql_result, "results", None))
              sql_ans    == Get(sql_result, "answer", None)
              rag_ans    == Get(rag_result, "answer", None)
              merged     == "combine" \in llm_calls'
          IN  /\ (~sql_rows /\ Truthy(rag_ans)) =>
                    (state'.response = rag_ans /\ ~merged)
              /\ (Truthy(sql_ans) /\ ~Truthy(rag_ans)) =>
                    (state'.response = sql_ans /\ ~merged)
              /\ merged <=> (sql_rows /\ Truthy(rag_ans))
              /\ merged => /\ Truthy(sql_ans)
                           /\ state'.response \in LlmTexts
                           /\ state'.sources =
                                List(Append(Get(rag_result, "sources", List(<<>>)).v,
                                            [type |-> "sql", query |-> sql_result.v.sql]))]_vars

\* the merge branch ran and returned the RAG sources and the SQL source
C6_Witness ==
    /\ pc = "END"
    /\ "combine" \in llm_calls
    /\ Len(state.sources.v) = 2
    /\ state.sources.v[2].type = "sql"

\* C7 (as claimed): whenever a step of the run failed, the result of process
\* has a non-empty response and an error field that carries the failure.
C7_FailureKeepsResponseAndError ==
    (pc = "idle" /\ result # None /\ failed # {})
    => /\ Truthy(result.v.response)
       /\ Truthy(Get(result, "error", None))

-----------------------------------------------------------------------------
(* Claims about the SQL engine *)

\* C8 (as claimed): every string that _validate_sql accepts starts with
\* SELECT (in any case), contains none of the dangerous keywords, and ends
\* with ";".
C8_AcceptedSqlIsSafe ==
    sql_pc = "execute" =>
        /\ sql.v # <<>>
        /\ Head(sql.v) \in SelectAtoms
        /\ \A k \in 1..Len(DangerousKeywords) : ~Contains(sql.v, DangerousKeywords[k])
        /\ sql.v[Len(sql.v)] = Semi

\* the atoms that are a LIMIT clause
C9_LimitClauses == {"LIMIT 10", "LIMIT 50"}

C9_HasLimitClause(q) == \E n \in 1..Len(q) : q[n] \in C9_LimitClauses

\* C9 (as claimed): every statement given to the database has a LIMIT
\* clause: it is the validated string itself when that has one, and the
\* validated string with LIMIT 50 appended when it has none.
C9_SentCarriesLimit ==
    db_sent # None =>
        /\ C9_HasLimitClause(db_sent.v)
        /\ IF C9_HasLimitClause(sql.v)
           THEN db_sent = sql
           ELSE db_sent.v = RStripSemi(sql.v) \o <<Space, "LIMIT 50", Semi>>

\* C10 (as claimed): every statement given to the database reads from
\* view_tra_cuu_diem and from no other table.
C10_SentReadsOnlyTheView ==
    db_sent # None =>
        \A n \in 1..Len(db_sent.v) :
            db_sent.v[n] \in Tables => db_sent.v[n] = "* FROM view_tra_cuu_diem"

\* C11: a string that validation rejects is not executed: the step that
\* rejects it sends nothing to the database and consumes one attempt; a
\* statement reaches the database only in the step after validation
\* accepted the string of the same attempt, so nothing sent holds a
\* dangerous keyword or fails to start with SELECT; and the request ends:
\* it returns rows of a later accepted statement or, with all R attempts
\* used, the failure message.
C11_RejectedNeverExecuted ==
    /\ [][(sql_pc = "validate" /\ sql_pc' = "loop") =>
             /\ db_sent' = None
             /\ attempt' = attempt + 1]_vars
    /\ [][(db_sent' # None /\ db_sent' # db_sent) =>
             /\ sql_pc = "execute"
             /\ sql' = sql]_vars
    /\ [][sql_pc' = "execute" => (sql_pc = "validate" /\ sql' = sql)]_vars
    /\ [](db_sent # None =>
             /\ \A k \in 1..Len(DangerousKeywords) :
                    ~Contains(db_sent.v, DangerousKeywords[k])
             /\ Head(db_sent.v) \in SelectAtoms)
    /\ (sql_pc = "loop" ~>
          (/\ sql_pc = "idle"
           /\ sql_return # None
           /\ \/ /\ sql_return.v.results # None
                 /\ db_sent # None
              \/ /\ sql_return.v.answer = Str(SqlFailMsg)
                 /\ attempt = MaxRetries))

\* the first attempt was rejected for DROP and a later one was executed
C11_Witness ==
    /\ attempt >= 1
    /\ error_history[1] = <<"Validation error: ", "Dangerous keyword detected: ", "DROP">>
    /\ db_sent # None
    /\ sql_return # None

\* C12: process_query makes at most R attempts; an attempt that fails adds
\* exactly one message to the error history and starts the next attempt;
\* the prompt of every generation holds all earlier messages; process_query
\* returns at the first attempt that narrates, with attempts = its number;
\* after R failures it returns the failure message, results None,
\* attempts R.
C12_RetryLoop ==
    /\ [](/\ attempt <= MaxRetries
          /\ Len(error_history) = attempt)
    /\ [][sql_pc = "loop" /\ sql_pc' # "idle" => error_context' = error_history]_vars
    /\ [][attempt' # attempt /\ sql_pc # "idle" =>
             /\ attempt' = attempt + 1
             /\ Len(error_history') = Len(error_history) + 1
             /\ SubSeq(error_history', 1, Len(error_history)) = error_history
             /\ sql_pc' = "loop"]_vars
    /\ [][(sql_pc = "answer" /\ sql_pc' = "idle") =>
             /\ sql_return'.v.attempts = attempt + 1
             /\ sql_return'.v.results = results
             /\ sql_return'.v.sql = sql]_vars
    /\ [][(sql_pc = "loop" /\ sql_pc' = "idle") =>
             /\ attempt = MaxRetries
             /\ sql_return'.v.answer = Str(SqlFailMsg)
             /\ sql_return'.v.results = None
             /\ sql_return'.v.attempts = MaxRetries
             /\ sql_return'.v.error = Str(error_history[Len(error_history)])]_vars

\* three attempts failed in three different ways and the failure came back
C12_Witness ==
    /\ sql_pc = "idle"
    /\ sql_return # None
    /\ sql_return.v.results = None
    /\ Len(error_history) = MaxRetries
    /\ error_history[1] # error_history[2]
    /\ error_history[2] # error_history[3]
    /\ error_context = SubSeq(error_history, 1, 2)

\* the atoms that are an equality predicate on gioi_tinh, by their value
C13_GenderPredicates ==
    [ Nam |-> "WHERE gioi_tinh = 'Nam'",
      nam |-> "WHERE gioi_tinh = 'nam'",
      nu  |-> "WHERE gioi_tinh = 'nu'" ]

\* C13 (as claimed): when the query yields a gender g, the string that
\* leaves the value-fix step holds the predicate gioi_tinh = 'g' and no
\* gioi_tinh equality predicate with another value.
C13_GenderPredicateEnforced ==
    (sql_pc = "validate" /\ "gioi_tinh" \in DOMAIN entities.v) =>
        LET g == entities.v.gioi_tinh.v
        IN  /\ \E n \in 1..Len(sql.v) : sql.v[n] = C13_GenderPredicates[g]
            /\ \A n \in 1..Len(sql.v) :
                 \A v \in DOMAIN C13_GenderPredicates :
                    sql.v[n] = C13_GenderPredicates[v] => v = g

-----------------------------------------------------------------------------
(* Claims about the markdown table *)

\* C14 (as claimed): the table built from the same rows in another order is
\* the table built from them in the first order.
C14_SameTableForAnyOrder == table_out # None => table_out = table_first

\* the place in the key of the column with the given display name, 0 for
\* the Khoi column
C15_KeyPlace(display) ==
    CASE display = "Nam" -> 1
      [] display = "Truong" -> 2
      [] display = "Nganh" -> 3
      [] display = "Khoi" -> 0
      [] display = "Gioi tinh" -> 4
      [] display = "Khu vuc" -> 5
      [] display = "Diem chuan" -> 6
      [] display = "Chi tieu" -> 7
      [] display = "Ghi chu" -> 8

C15_EmptyKey == <<"", "", "", "", "", "", "", "">>

-----------------------------------------------------------------------------
(* Claims about the semantic cache *)

\* C16 (as claimed): once an entry has been added, every later lookup with an
\* embedding of similarity at least the threshold to the entry's embedding,
\* made while the entry is no older than the TTL, returns the entry's
\* response, whatever other entries the cache holds.
C16_AddedEntryIsReturned ==
    lookup_arg # None =>
        \A n \in 1..Len(added) :
            ( /\ added[n].timestamp < current_time
              /\ current_time - added[n].timestamp <= CacheTtlHours
              /\ AtLeastThreshold(Dot(added[n].query_embedding, lookup_arg.v)) )
            => /\ lookup_ret # None
               /\ lookup_ret.v.response = added[n].response

\* C17: what lookup returns is the response of an entry that is no older than
\* the TTL at the time of the lookup.
C17_NoExpiredResponse ==
    lookup_ret # None =>
        /\ best_match # None
        /\ current_time - best_match.timestamp <= CacheTtlHours
        /\ lookup_ret.v.response = best_match.response
        /\ lookup_ret.v.original_query = best_match.query_text

\* a lookup returned a response although an expired entry was more similar to
\* the query than the entry whose response it returned
C17_Witness ==
    /\ lookup_ret # None
    /\ \E i \in 1..Len(cache) :
         /\ current_time - cache[i].timestamp > CacheTtlHours
         /\ Dot(cache[i].query_embedding, lookup_arg.v)
              > Dot(best_match.query_embedding, lookup_arg.v)

-----------------------------------------------------------------------------
(* Claims about the RAG engine's cache steps *)

\* C19 (as claimed): when a call of process_query has produced an answer and
\* a later call asks the identical question within the TTL, the later call
\* returns at the cache step, with no retrieval, no reranking and no LLM
\* call, and with the answer and the sources of the earlier call.
C19_RepeatedQuestionHitsCache ==
    \A i, j \in 1..Len(rag_log) :
        ( /\ i < j
          /\ rag_log[i].query = rag_log[j].query
          /\ rag_log[i].steps = <<"cache", "retrieval", "rerank", "llm">>
          /\ rag_log[j].called - rag_log[i].returned <= CacheTtlHours )
        => /\ rag_log[j].steps = <<"cache">>
           /\ rag_log[j].result.v.answer = rag_log[i].result.v.answer
           /\ rag_log[j].result.v.sources = rag_log[i].result.v.sources

-----------------------------------------------------------------------------
(* Claims about deduplication *)

\* C20: in the list deduplicate_chunks returns, no two chunks at different
\* places have token sets whose Jaccard similarity
\* |A \cap B| / max(|A \cup B|, 1) is at least the threshold.
C20_NoNearDuplicatesLeft ==
    dedup_out # None =>
        \A i, j \in 1..Len(dedup_out.v) :
            i # j =>
                LET a == TokenSet(dedup_out.v[i])
                    b == TokenSet(dedup_out.v[j])
                IN  Cardinality(a \cap b) * 100 < DedupThreshold * Cardinality(a \cup b)
                    \/ a \cup b = {}

\* a chunk was dropped as a near duplicate of the first, and a later chunk
\* that is a near duplicate of the dropped one but not of the first was kept
C20_Witness ==
    /\ dedup_out # None
    /\ Len(dedup_in) = 3
    /\ Len(dedup_out.v) = 2
    /\ dedup_out.v = <<dedup_in[1], dedup_in[3]>>
    /\ JaccardAtLeast(TokenSet(dedup_in[2]), TokenSet(dedup_in[3]), DedupThreshold)
    /\ Cardinality(TokenSet(dedup_in[1])) = 6

-----------------------------------------------------------------------------
(* Smart merging *)

\* the ids met by following parent_id from a chunk, however far
RECURSIVE C21_AncestorIds(_, _)
C21_AncestorIds(chunk, n) ==
    LET parent_id == MetaGet(chunk, "parent_id")
    IN  IF n = 0 \/ parent_id = "" \/ parent_id \notin DOMAIN ChunkMap THEN {}
        ELSE {parent_id} \cup C21_AncestorIds(ChunkMap[parent_id], n - 1)

C21_IsAncestorOf(a, b) == a.id \in C21_AncestorIds(b, Cardinality(LegalChunks))

\* C21: the output of merge_chunks_smart contains no two chunks of which one
\* is an ancestor of the other, following parent_id.
C21_NoAncestorPairLeft ==
    merge_out # None =>
        \A i, j \in 1..Len(merge_out.v.merged) :
            ~C21_IsAncestorOf(merge_out.v.merged[i], merge_out.v.merged[j])

\* C22 as stated: the sources list never has more than reranker_top_k entries.
C22_AtMostRerankerTopK ==
    merge_out # None => Len(merge_out.v.sources) <= RerankerTopK

\* C22: the sources list never has more entries than the chunks allowed for
\* the intent of the query, for every intent and every number of reranked
\* candidates.
C22_AtMostIntentChunks ==
    merge_out # None =>
        Len(merge_out.v.sources) <= ContextSettings[merge_intent].chunks

\* four chunks without overlap were reranked for an intent that allows three
C22_Witness ==
    /\ merge_out # None
    /\ Len(merge_in) = 4
    /\ \A i, j \in 1..4 : ~C21_IsAncestorOf(merge_in[i], merge_in[j])
    /\ ContextSettings[merge_intent].chunks = 3
    /\ Len(merge_out.v.sources) = 3

-----------------------------------------------------------------------------
(* Chunk store *)

\* C23: after the chunk map is built, every id listed in a chunk's
\* children_ids is the id of a stored chunk whose parent_id is that chunk's id.
C23_ChildrenAreStoredChildren ==
    store_pc = "done" /\ store_exc # Str("ValueError") =>
        \A i \in DOMAIN store_chunk_map :
            store_chunk_map[i].children_ids # None =>
                \A n \in 1..Len(store_chunk_map[i].children_ids.v) :
                    LET cid == store_chunk_map[i].children_ids.v[n]
                    IN  /\ cid \in DOMAIN store_chunk_map
                        /\ MetaGet(store_chunk_map[cid], "parent_id") = i

\* the ids met by following parent_id through the chunks of the file
RECURSIVE C24_Chain(_, _, _)
C24_Chain(chunks, id, n) ==
    IF n = 0 \/ id \notin DOMAIN ChunkMapOf(chunks) THEN {}
    ELSE LET parent_id == MetaGet(ChunkMapOf(chunks)[id], "parent_id")
         IN  IF parent_id = "" THEN {}
             ELSE {parent_id} \cup C24_Chain(chunks, parent_id, n - 1)

C24_HasCycle(chunks) ==
    \E i \in DOMAIN ChunkMapOf(chunks) : i \in C24_Chain(chunks, i, Len(chunks))

C24_HasUnknownParent(chunks) ==
    \E n \in 1..Len(chunks) :
        /\ MetaGet(chunks[n], "parent_id") # ""
        /\ MetaGet(chunks[n], "parent_id") \notin DOMAIN ChunkMapOf(chunks)

\* C24: building the store from input with a cycle of parent_id, or with a
\* parent_id that names no chunk of the input, aborts with an error and
\* leaves no loaded store.
C24_BadStructureAborts ==
    /\ store_pc = "done"
    /\ C24_HasCycle(store_in) \/ C24_HasUnknownParent(store_in)
    => store_exc # None /\ store_loaded = FALSE

-----------------------------------------------------------------------------
(* Reciprocal rank fusion *)

\* a ranking holds each document once
C25_IsRanking(l) == \A i, j \in 1..Len(l) : i # j => l[i][1] # l[j][1]

C25_Docs(l) == { l[n][1] : n \in 1..Len(l) }

C25_TopAgrees ==
    /\ C25_IsRanking(rrf_lists[1]) /\ C25_IsRanking(rrf_lists[2])
    /\ rrf_lists[1] # <<>> /\ rrf_lists[2] # <<>>
    /\ rrf_lists[1][1][1] = rrf_lists[2][1][1]

C25_Disjoint ==
    /\ C25_IsRanking(rrf_lists[1]) /\ C25_IsRanking(rrf_lists[2])
    /\ C25_Docs(rrf_lists[1]) \cap C25_Docs(rrf_lists[2]) = {}

-----------------------------------------------------------------------------
(* RAG engine: nothing found *)

C26_LastCall == rag_log'[Len(rag_log')]

\* C26: when hybrid search yields no candidate, or merging leaves no chunk,
\* process_query returns the canned not-found answer with sources = [] and no
\* error, without a call of the answer LLM and without an insert into the
\* semantic cache.
C26_NothingFoundReturnsCanned ==
    [][ \/ rag_pc = "search" /\ rag_candidates' = <<>>
        \/ rag_pc = "rerank" /\ rag_merged' = <<>>
        => /\ rag_pc' = "idle"
           /\ Len(rag_log') = Len(rag_log) + 1
           /\ C26_LastCall.result.v.answer = EmptyAnswer
           /\ C26_LastCall.result.v.sources = <<>>
           /\ "error" \notin DOMAIN C26_LastCall.result.v
           /\ \A n \in 1..Len(C26_LastCall.steps) : C26_LastCall.steps[n] # "llm"
           /\ cache' = cache
           /\ added' = added ]_vars

\* a call whose merging left no chunk has returned, and so has one whose
\* search found no candidate
C26_Witness ==
    /\ \E n \in 1..Len(rag_log) :
          /\ rag_log[n].steps = <<"cache", "retrieval">>
          /\ rag_log[n].result.v.sources = <<>>
    /\ \E n \in 1..Len(rag_log) :
          /\ rag_log[n].steps = <<"cache", "retrieval", "rerank">>
          /\ rag_log[n].result.v.sources = <<>>

-----------------------------------------------------------------------------
(* Chat endpoint *)

C27_Place(r, role) ==
    CHOOSE n \in 1..Len(Transcript) :
        Transcript[n].request = r /\ Transcript[n].role = role

C27_ArrivedBefore(r1, r2) ==
    \E i, j \in 1..Len(chat_arrived) :
        i < j /\ chat_arrived[i] = r1 /\ chat_arrived[j] = r2

\* C27: the stored transcript of a session holds, for every completed
\* request, its user message before its assistant reply, and the user
\* messages in the order in which the requests arrived.
C27_TranscriptInArrivalOrder ==
    /\ \A r \in Requests :
          chat_pc[r] = "done" => C27_Place(r, "user") < C27_Place(r, "assistant")
    /\ \A r1, r2 \in Requests :
          chat_pc[r1] = "done" /\ chat_pc[r2] = "done" /\ C27_ArrivedBefore(r1, r2)
              => C27_Place(r1, "user") < C27_Place(r2, "user")

\* C28: a request whose write to the transcript failed has the failure
\* logged and its caller has received the answer of the Supervisor, not an
\* error.
C28_WriteFailureKeepsAnswer ==
    \A r \in Requests :
        chat_pc[r] = "failed" =>
            /\ \E n \in 1..Len(chat_log) : chat_log[n].request = r
            /\ chat_reply[r].status_code = 200
            /\ chat_result[r] # None
            /\ chat_reply[r].response = chat_result[r].response

-----------------------------------------------------------------------------
(* Conversation state of a session *)

C29_IsPrefix(p, q) == Len(p) <= Len(q) /\ SubSeq(q, 1, Len(p)) = p

\* C29: after each completed request the message list of the session has
\* grown by the user's message followed by the assistant's reply, and the
\* messages already in it are never removed or reordered.
C29_MessagesGrowByBoth ==
    [][ /\ C29_IsPrefix(session_messages, session_messages')
        /\ pc \in {"END", "raised"} /\ pc' = "idle" =>
              session_messages' = session_before \o
                  << [role |-> "user", content |-> session_query],
                     [role |-> "assistant", content |-> result'.v.response] >> ]_vars

-----------------------------------------------------------------------------
(* RAG engine: deadlines *)

\* C30: a RAG request during which an external call passed its stage
\* deadline returns the empty-result response, with no answer made from a
\* context.
C30_OverdueCallGivesEmptyResult ==
    [][ /\ rag_pc # "idle" /\ rag_pc' = "idle"
        /\ IF rag_overdue = None THEN FALSE ELSE rag_overdue.call = RunningCall
        => rag_log'[Len(rag_log')].result =
               EmptyResult(rag_query.v, RagIntent(rag_query.v)) ]_vars

-----------------------------------------------------------------------------
(* Entity extraction: VietnameseTextProcessor.extract_khoi_thi and          *)
(* SQLAgent._extract_entities (src/src/utils/vietnamese.py,                 *)
(* src/src/agents/sql_agent.py)                                             *)
(*                                                                          *)
(* A text is a sequence of characters; a character is a one-element label. *)
(* Letters with diacritics are written by name: "d_bar" is d with stroke,   *)
(* "o_hat_acute" o with circumflex and acute, "e_hat_hook" e with           *)
(* circumflex and hook, "a_breve" a with breve.                             *)

\* a query has at most this many words
MaxWords == 3

\* the words queries are made of
QueryWords ==
    { <<"A", "0", "0">>,                       \* A00
      <<"d", "0", "1">>,                       \* d01
      <<"k", "h", "o_hat_acute", "i">>,        \* khoi, with diacritics
      <<"a">>,
      <<"d_bar", "i", "e_hat_hook", "m">>,     \* diem, with diacritics
      <<"n", "a_breve", "m">>,                 \* nam, with diacritics
      <<"h", "o", "i">>,                       \* hoi
      <<"2", "0", "2", "4">>,
      <<>> }                                   \* two spaces in a row

KhoiQueries == UNION { [1..n -> QueryWords] : n \in 1..MaxWords }

\* " ".join(words)
RECURSIVE JoinWords(_)
JoinWords(words) ==
    IF words = <<>> THEN <<>>
    ELSE IF Len(words) = 1 THEN words[1]
    ELSE words[1] \o <<" ">> \o JoinWords(Tail(words))

Digits == {"0", "1", "2", "4"}

\* str.upper() on the characters of the model
UpperChar(c) ==
    CASE c = "a" -> "A" [] c = "d" -> "D" [] c = "e" -> "E" [] c = "h" -> "H"
      [] c = "i" -> "I" [] c = "k" -> "K" [] c = "m" -> "M" [] c = "n" -> "N"
      [] c = "o" -> "O" [] c = "d_bar" -> "D_bar"
      [] c = "o_hat_acute" -> "O_hat_acute"
      [] c = "e_hat_hook" -> "E_hat_hook" [] c = "a_breve" -> "A_breve"
      [] OTHER -> c

\* str.lower() on the characters of the model
LowerChar(c) ==
    CASE c = "A" -> "a" [] c = "D" -> "d"
      [] OTHER -> c

\* VIETNAMESE_DIACRITICS
RemoveDiacritic(c) ==
    CASE c = "d_bar" -> "d" [] c = "o_hat_acute" -> "o"
      [] c = "e_hat_hook" -> "e" [] c = "a_breve" -> "a"
      [] OTHER -> c

\* " ".join(text.split())
CollapseSpaces(text) ==
    LET keep == { i \in 1..Len(text) :
                    \/ text[i] # " "
                    \/ /\ i > 1
                       /\ text[i - 1] # " "
                       /\ \E j \in (i + 1)..Len(text) : text[j] # " " }
        nth(n) == CHOOSE i \in keep : Cardinality({ j \in keep : j < i }) = n - 1
    IN  [ n \in 1..Cardinality(keep) |-> text[nth(n)] ]

\* normalize_text
NormalizeText(text) ==
    CollapseSpaces([ i \in 1..Len(text) |-> LowerChar(RemoveDiacritic(text[i])) ])

\* key in text
HasSubstring(text, key) ==
    \E i \in 0..(Len(text) - Len(key)) :
        \A j \in 1..Len(key) : text[i + j] = key[j]

\* the places where \b([ABCD]\d{2})\b matches
CodeMatches(text) ==
    { i \in 1..(Len(text) - 2) :
        /\ text[i] \in {"A", "B", "C", "D"}
        /\ text[i + 1] \in Digits
        /\ text[i + 2] \in Digits
        /\ i = 1 \/ text[i - 1] = " "
        /\ i + 2 = Len(text) \/ text[i + 3] = " " }

\* khoi_mapping, in the order of the dict
KhoiMapping ==
    << <<(<<"k", "h", "o_hat_acute", "i", " ", "a">>), <<"A", "0", "0">> >>,
       <<(<<"k", "h", "o", "i", " ", "a">>), <<"A", "0", "0">> >>,
       <<(<<"a">>), <<"A", "0", "0">> >>,
       <<(<<"k", "h", "o_hat_acute", "i", " ", "b">>), <<"B", "0", "0">> >>,
       <<(<<"k", "h", "o", "i", " ", "b">>), <<"B", "0", "0">> >>,
       <<(<<"b">>), <<"B", "0", "0">> >>,
       <<(<<"k", "h", "o_hat_acute", "i", " ", "c">>), <<"C", "0", "0">> >>,
       <<(<<"k", "h", "o", "i", " ", "c">>), <<"C", "0", "0">> >>,
       <<(<<"c">>), <<"C", "0", "0">> >>,
       <<(<<"k", "h", "o_hat_acute", "i", " ", "d">>), <<"D", "0", "1">> >>,
       <<(<<"k", "h", "o", "i", " ", "d">>), <<"D", "0", "1">> >>,
       <<(<<"d">>), <<"D", "0", "1">> >> >>

\* extract_khoi_thi
ExtractKhoiThi(text) ==
    LET upper   == [ i \in 1..Len(text) |-> UpperChar(text[i]) ]
        matches == CodeMatches(upper)
        first   == CHOOSE i \in matches : \A j \in matches : i <= j
        text_lower == NormalizeText(text)
        hits    == { n \in 1..Len(KhoiMapping) :
                       HasSubstring(text_lower, KhoiMapping[n][1]) }
        hit     == CHOOSE n \in hits : \A m \in hits : n <= m
    IN  IF matches # {}
        THEN Str(<<upper[first], upper[first + 1], upper[first + 2]>>)
        ELSE IF hits # {} THEN Str(KhoiMapping[hit][2]) ELSE None

\* the khoi_thi part of _extract_entities
ExtractEntities ==
    /\ khoi_entities = None
    /\ LET khoi == ExtractKhoiThi(JoinWords(khoi_query))
       IN  khoi_entities' = IF khoi # None
                            THEN Dict([ khoi_thi |-> khoi ])
                            ELSE Dict(<<>>)
    /\ UNCHANGED <<khoi_query, earlierVars, midVars, validateVars, navVars, memVars>>

\* the next request asks the same words in another order
NextQuery ==
    /\ khoi_entities # None
    /\ khoi_entities' = None
    /\ khoi_query' = Append(Tail(khoi_query), Head(khoi_query))
    /\ UNCHANGED <<earlierVars, midVars, validateVars, navVars, memVars>>

InitKhoi ==
    /\ EarlierIdle
    /\ MidIdle
    /\ ValidateIdle
    /\ NavIdle
    /\ MemIdle
    /\ khoi_query \in KhoiQueries
    /\ khoi_entities = None

NextKhoi == ExtractEntities \/ NextQuery

SpecKhoi == InitKhoi /\ [][NextKhoi]_vars

-----------------------------------------------------------------------------
(* SQL engine: SQLAgent._validate_sql as a function of the string and of   *)
(* how the grader call ends (src/src/agents/sql_agent.py, src/src/core/llm.py) *)

\* how generate_with_json(use_grader=True) may end: it raises (the call
\* failed, or json.loads rejected the output), or it returns the parsed value
GraderOutcomes == {CallRaised} \cup GraderReplies \cup {None, List(<<>>)}

\* the pair _validate_sql returns; response.get on a value that is not a
\* dict raises inside the try, and the except clause returns (True, None)
ValidateSqlReturn(q, outcome) ==
    IF BasicCheck(q) # None
    THEN [ok |-> FALSE, error |-> BasicCheck(q)]
    ELSE IF outcome.t # "dict"
         THEN [ok |-> TRUE, error |-> None]
         ELSE IF GraderCheck(outcome) # None
              THEN [ok |-> FALSE, error |-> GraderCheck(outcome)]
              ELSE [ok |-> TRUE, error |-> None]

\* one call of _validate_sql
ValidateCall ==
    /\ val_out = None
    /\ \E outcome \in GraderOutcomes :
         /\ val_grader' = IF BasicCheck(val_sql.v) # None THEN NotCalled ELSE outcome
         /\ val_out' = ValidateSqlReturn(val_sql.v, outcome)
    /\ UNCHANGED <<val_sql, earlierVars, midVars, khoiVars, navVars, memVars>>

\* the next string to validate
NextValidated ==
    /\ val_out # None
    /\ \E s \in GeneratedSqls : val_sql' = Str(s)
    /\ val_grader' = NotCalled
    /\ val_out' = None
    /\ UNCHANGED <<earlierVars, midVars, khoiVars, navVars, memVars>>

InitValidate ==
    /\ EarlierIdle
    /\ MidIdle
    /\ KhoiIdle
    /\ NavIdle
    /\ MemIdle
    /\ val_sql \in { Str(s) : s \in GeneratedSqls }
    /\ val_grader = NotCalled
    /\ val_out = None

NextValidate == ValidateCall \/ NextValidated

SpecValidate == InitValidate /\ [][NextValidate]_vars

-----------------------------------------------------------------------------
(* Hierarchy navigation and sibling enrichment                              *)
(* (src/src/agents/components/hierarchy.py)                                 *)
(*                                                                          *)
(* The chunk map holds one dict per chunk; the functions below receive and  *)
(* return these dicts themselves, so a write to a returned chunk is a write *)
(* to the chunk of the map.  A chunk is named by its id in the variables.   *)

\* max_levels of find_parent_chunks
MaxLevels == 2

\* a chunk lists at most this many children
MaxChildren == 2

\* min_score and max_siblings that enrich_with_all_siblings passes, the
\* score in percent
MinSiblingScore == 30
MaxSiblings == 5

\* max_siblings that find_smart_siblings passes to find_sibling_chunks
SiblingFetch == 10

\* the chunks of the map, in the order of the file: a chapter and two articles
NavOrder == <<"p", "a", "b">>
NavIds == Range(NavOrder)

\* an id that no chunk has
MissingId == "x"

NavChunk(id, parent_id, children_ids) ==
    [id           |-> id,
     content      |-> "noi dung",
     metadata     |-> IF id = "p"
                      THEN [parent_id |-> parent_id, chapter |-> "I"]
                      ELSE [parent_id |-> parent_id, chapter |-> "I", article |-> id],
     children_ids |-> children_ids]

\* the ids whose parent_id is id, in the order of the file
ChildrenOf(parent_of, id) ==
    LET idx == { n \in 1..Len(NavOrder) : parent_of[NavOrder[n]] = id }
        nth(k) == CHOOSE n \in idx : Cardinality({ m \in idx : m < n }) = k - 1
    IN  [ k \in 1..Cardinality(idx) |-> NavOrder[nth(k)] ]

\* maps as the build leaves them, for any parent_id of each chunk: no
\* parent, a chunk (cycles included), or an id that no chunk has
BuiltGraphs ==
    { [ i \in NavIds |-> NavChunk(i, parent_of[i], ChildrenOf(parent_of, i)) ] :
        parent_of \in [NavIds -> NavIds \cup {"", MissingId}] }

\* the lists of children a chunk may hold: no id twice
ChildLists ==
    { q \in UNION { [1..n -> NavIds \cup {MissingId}] : n \in 0..MaxChildren } :
        \A i, j \in 1..Len(q) : i # j => q[i] # q[j] }

\* maps with any children_ids for the chapter and the first article
\* (cycles included) and no parent_id
DownGraphs ==
    { [ i \in NavIds |-> NavChunk(i, "", IF i = "b" THEN <<>> ELSE lists[i]) ] :
        lists \in [{"p", "a"} -> ChildLists] }

NavGraphs == BuiltGraphs \cup DownGraphs

\* the counters of a request, before its first loop
NoSteps == [parents |-> 0, ancestor |-> 0, bfs |-> 0]

\* find_parent_chunks: one pass of `for _ in range(max_levels)`, or the end
\* of the loop
FindParentStep ==
    /\ nav_pc = "parents"
    /\ LET parent_id == MetaGet(nav_map[nav_current], "parent_id")
       IN  IF /\ nav_steps.parents < MaxLevels
              /\ parent_id # ""
              /\ parent_id \in DOMAIN nav_map
           THEN /\ nav_parents' = Append(nav_parents, parent_id)
                /\ nav_current' = parent_id
                /\ nav_steps' = [nav_steps EXCEPT !.parents = @ + 1]
                /\ UNCHANGED nav_pc
           ELSE /\ nav_pc' = "ancestor"
                /\ nav_current' = nav_chunk
                /\ UNCHANGED <<nav_parents, nav_steps>>
    /\ UNCHANGED <<nav_built, nav_map, nav_chunk, nav_other, nav_found,
                   nav_queue, nav_visited, nav_descendants, nav_enriched, nonNavVars>>

\* is_ancestor(other, chunk): one pass of `for _ in range(max_depth)`, or a
\* return; the BFS of find_smart_descendants starts after it
IsAncestorStep ==
    /\ nav_pc = "ancestor"
    /\ LET parent_id == MetaGet(nav_map[nav_current], "parent_id")
           Return(b) == /\ nav_found' = b
                        /\ nav_pc' = "bfs"
                        /\ nav_queue' = nav_map[nav_chunk].children_ids
                        /\ UNCHANGED <<nav_current, nav_steps>>
       IN  IF nav_steps.ancestor >= AncestorMaxDepth THEN Return(FALSE)
           ELSE IF parent_id = "" THEN Return(FALSE)
           ELSE IF parent_id = ChunkId(nav_map[nav_other]) THEN Return(TRUE)
           ELSE IF parent_id \notin DOMAIN nav_map THEN Return(FALSE)
           ELSE /\ nav_current' = parent_id
                /\ nav_steps' = [nav_steps EXCEPT !.ancestor = @ + 1]
                /\ UNCHANGED <<nav_found, nav_pc, nav_queue>>
    /\ UNCHANGED <<nav_built, nav_map, nav_chunk, nav_other, nav_parents,
                   nav_visited, nav_descendants, nav_enriched, nonNavVars>>

\* mutant: the BFS without its visited set
BfsSkips_NoVisited(child_id, visited_ids, chunk_map) ==
    child_id \notin DOMAIN chunk_map

\* child_id in visited or child_id not in chunk_map
BfsSkips(child_id, visited_ids, chunk_map) ==
    child_id \in visited_ids \/ child_id \notin DOMAIN chunk_map

\* find_smart_descendants: one pass of `while queue`, or the end of the loop
BfsStep ==
    /\ nav_pc = "bfs"
    /\ IF nav_queue = <<>>
       THEN /\ nav_pc' = "enrich"
            /\ UNCHANGED <<nav_queue, nav_visited, nav_descendants, nav_steps>>
       ELSE LET child_id == Head(nav_queue)
            IN  /\ nav_steps' = [nav_steps EXCEPT !.bfs = @ + 1]
                /\ UNCHANGED nav_pc
                /\ IF BfsSkips(child_id, nav_visited, nav_map)
                   THEN /\ nav_queue' = Tail(nav_queue)
                        /\ UNCHANGED <<nav_visited, nav_descendants>>
                   ELSE /\ nav_visited' = nav_visited \cup {child_id}
                        /\ nav_descendants' = Append(nav_descendants, child_id)
                        /\ nav_queue' = Tail(nav_queue) \o nav_map[child_id].children_ids
    /\ UNCHANGED <<nav_built, nav_map, nav_chunk, nav_other, nav_current,
                   nav_parents, nav_found, nav_enriched, nonNavVars>>

\* find_sibling_chunks: the ids of the siblings
FindSiblingChunks(chunk_map, chunk, max_siblings) ==
    LET parent_id == MetaGet(chunk, "parent_id")
        chunk_id  == ChunkId(chunk)
    IN  IF parent_id = "" \/ parent_id \notin DOMAIN chunk_map THEN <<>>
        ELSE Take(SelectSeq(chunk_map[parent_id].children_ids,
                            LAMBDA cid : cid # chunk_id /\ cid \in DOMAIN chunk_map),
                  max_siblings)

\* chunk[key] = value
SetKey(chunk, key, value) ==
    [ k \in DOMAIN chunk \cup {key} |-> IF k = key THEN value ELSE chunk[k] ]

\* scored.sort(key=score, reverse=True): stable, largest score first
SortedSiblings(ids, score) ==
    CHOOSE q \in [1..Len(ids) -> Range(ids)] :
        /\ \A n \in 1..Len(ids) : \E m \in 1..Len(q) : q[m] = ids[n]
        /\ \A m, n \in 1..Len(q) :
             m < n => \/ score[q[m]] > score[q[n]]
                      \/ /\ score[q[m]] = score[q[n]]
                         /\ \E i, j \in 1..Len(ids) :
                              i < j /\ ids[i] = q[m] /\ ids[j] = q[n]

\* the scores score_descendant_relevance may give, in percent
SiblingScores == {20, 50}

\* enrich_with_all_siblings([chunk], ...) with find_smart_siblings inside
EnrichWithAllSiblings ==
    /\ nav_pc = "enrich"
    /\ nav_pc' = "done"
    /\ LET chunk == nav_map[nav_chunk] IN
       IF GetSectionType(chunk) \notin {"dieu", "muc"}
       THEN /\ nav_enriched' = <<nav_chunk>>
            /\ UNCHANGED nav_map
       ELSE LET siblings == FindSiblingChunks(nav_map, chunk, SiblingFetch) IN
            \E score \in [Range(siblings) -> SiblingScores] :
              LET passing == SelectSeq(siblings, LAMBDA s : score[s] >= MinSiblingScore)
                  scored  == Take(SortedSiblings(passing, score), MaxSiblings)
                  fresh   == { s \in Range(scored) : s # nav_chunk }
              IN  /\ nav_enriched' = <<nav_chunk>> \o
                                     SelectSeq(scored, LAMBDA s : s \in fresh)
                  /\ nav_map' =
                       [ i \in DOMAIN nav_map |->
                           LET c1 == IF i \in Range(passing)
                                     THEN SetKey(nav_map[i], "_relevance_score", score[i])
                                     ELSE nav_map[i]
                           IN  IF i \in fresh
                               THEN SetKey(c1, "_is_sibling_enrichment", TRUE)
                               ELSE c1 ]
    /\ UNCHANGED <<nav_built, nav_chunk, nav_other, nav_current, nav_parents,
                   nav_steps, nav_found, nav_queue, nav_visited, nav_descendants,
                   nonNavVars>>

\* the next request reaches the other chunk; the process keeps its map
NextNavRequest ==
    /\ nav_pc = "done"
    /\ nav_other # nav_chunk
    /\ nav_pc' = "parents"
    /\ nav_chunk' = nav_other
    /\ nav_other' = nav_chunk
    /\ nav_current' = nav_other
    /\ nav_parents' = <<>>
    /\ nav_steps' = NoSteps
    /\ nav_found' = None
    /\ nav_queue' = <<>>
    /\ nav_visited' = {}
    /\ nav_descendants' = <<>>
    /\ nav_enriched' = None
    /\ UNCHANGED <<nav_built, nav_map, nonNavVars>>

NextNav ==
    \/ FindParentStep
    \/ IsAncestorStep
    \/ BfsStep
    \/ EnrichWithAllSiblings
    \/ NextNavRequest

InitNav ==
    /\ EarlierIdle
    /\ MidIdle
    /\ KhoiIdle
    /\ ValidateIdle
    /\ MemIdle
    /\ nav_built \in NavGraphs
    /\ nav_map = nav_built
    /\ nav_pc = "parents"
    /\ nav_chunk \in NavIds
    /\ nav_other \in NavIds
    /\ nav_current = nav_chunk
    /\ nav_parents = <<>>
    /\ nav_steps = NoSteps
    /\ nav_found = None
    /\ nav_queue = <<>>
    /\ nav_visited = {}
    /\ nav_descendants = <<>>
    /\ nav_enriched = None

SpecNav == InitNav /\ [][NextNav]_vars

-----------------------------------------------------------------------------
(* Supervisor: the memory of several sessions                               *)
(* (src/src/agents/supervisor.py; the checkpointer is MemorySaver, which    *)
(* keeps one thread of checkpoints for each thread_id)                      *)

SessionIds == {"s1", "s2"}

\* the queries a session submits; no text is submitted under two sessions
SessionQueries == [s1 |-> {"q1", "q2"}, s2 |-> {"q3", "q4"}]

\* the messages of the state that the planner prompt shows
HistoryWindow == 5

\* mutant: every request runs on the thread of the default session_id
ThreadId_Default(session_id) == "default"

\* config = {"configurable": {"thread_id": session_id}}
ThreadId(session_id) == session_id

ThreadIds == SessionIds \cup {"default"}

\* process(query, session_id): the thread's state is loaded, the input is
\* written to it through the reducer and checkpointed
MemProcess(s) ==
    /\ mem_run[s] = None
    /\ Len(mem_store[ThreadId(s)]) < MaxTurns
    /\ \E query \in SessionQueries[s] :
         LET messages == AddMessages(mem_store[ThreadId(s)], InitialWrite(query))
         IN  /\ mem_run' = [mem_run EXCEPT ![s] = [node |-> "route", messages |-> messages]]
             /\ mem_store' = [mem_store EXCEPT ![ThreadId(s)] = messages]
    /\ UNCHANGED <<mem_seen, mem_history, nonMemVars>>

\* the route node of the run: with the router's result accepted, or with
\* the planner, whose prompt gets the last messages of the state
MemRoute(s) ==
    /\ mem_run[s] # None
    /\ mem_run[s].node = "route"
    /\ mem_run' = [mem_run EXCEPT ![s].node = "agent"]
    /\ \/ UNCHANGED mem_seen
       \/ mem_seen' = [mem_seen EXCEPT ![s] = List(LastN(mem_run[s].messages, HistoryWindow))]
    /\ UNCHANGED <<mem_store, mem_history, nonMemVars>>

\* the rest of the run: no node writes messages; the final state is
\* checkpointed on the thread and process returns
MemReturn(s) ==
    /\ mem_run[s] # None
    /\ mem_run[s].node = "agent"
    /\ mem_store' = [mem_store EXCEPT ![ThreadId(s)] = mem_run[s].messages]
    /\ mem_run' = [mem_run EXCEPT ![s] = None]
    /\ UNCHANGED <<mem_seen, mem_history, nonMemVars>>

\* get_history(session_id)
MemGetHistory(s) ==
    /\ mem_history' = [mem_history EXCEPT ![s] = List(mem_store[ThreadId(s)])]
    /\ UNCHANGED <<mem_store, mem_run, mem_seen, nonMemVars>>

InitMem ==
    /\ EarlierIdle
    /\ MidIdle
    /\ KhoiIdle
    /\ ValidateIdle
    /\ NavIdle
    /\ mem_store = [t \in ThreadIds |-> <<>>]
    /\ mem_run = [s \in SessionIds |-> None]
    /\ mem_seen = [s \in SessionIds |-> None]
    /\ mem_history = [s \in SessionIds |-> None]

NextMem ==
    \/ \E s \in SessionIds : MemProcess(s)
    \/ \E s \in SessionIds : MemRoute(s)
    \/ \E s \in SessionIds : MemReturn(s)
    \/ \E s \in SessionIds : MemGetHistory(s)

SpecMem == InitMem /\ [][NextMem]_vars

-----------------------------------------------------------------------------
(* Supervisor: planner failure *)

\* the agents the planner may name that are not the general agent
C32_NamedAgents == { Str(a) : a \in {"sql", "rag", "school_info", "clarification"} }

\* C32: when the route node fell back to the planner and the planner failed
\* (it raised, which includes malformed JSON and an unhashable agent, or it
\* returned nothing, a non-object, an object without agent or an unknown
\* agent), the node after route is general: the run is not aborted at route
\* and does not go to clarify.
C32_PlannerFailureGoesGeneral ==
    (/\ Len(visited) >= 1
     /\ "planner" \in llm_calls
     /\ "planner" \in failed \/ state.intent \notin C32_NamedAgents)
    => /\ visited[1] = "route"
       /\ ~state.needs_clarification
       /\ Len(visited) = 1 => pc = "general"
       /\ Len(visited) >= 2 => visited[2] = "general"

\* the planner named an agent that does not exist and general ran; in
\* another run the planner raised and general ran
C32_Witness ==
    /\ Len(visited) >= 2
    /\ "planner" \in llm_calls
    /\ "planner" \notin failed
    /\ state.intent = Str("other")
    /\ visited[2] = "general"

-----------------------------------------------------------------------------
(* Supervisor: acceptance of a router result *)

\* C33: a router result is accepted without the planner exactly when its
\* best score is >= 0.75 (at or above the router threshold, or in
\* [0.75, threshold) through the best-of step, which uses the top-scoring
\* intent); every result below 0.75 goes to the planner; 0.75 and 0.85
\* themselves are accepted.
C33_AcceptedFromBestOfLevel ==
    (Len(visited) >= 1 /\ router_result # None)
    => ("planner" \notin llm_calls
          <=> router_result.v.confidence >= BestOfLevel)

-----------------------------------------------------------------------------
(* Entity extraction: the exam group *)

\* the query has a word of the form [ABCD]dd, in either case
C36_HasCode ==
    \E n \in 1..Len(khoi_query) :
        /\ Len(khoi_query[n]) = 3
        /\ khoi_query[n][1] \in {"A", "B", "C", "D", "a", "b", "c", "d"}
        /\ khoi_query[n][2] \in Digits
        /\ khoi_query[n][3] \in Digits

\* the query has a group letter as a word of its own, which covers every
\* khoi X phrase and the short form without khoi
C36_HasLetter ==
    \E n \in 1..Len(khoi_query) :
        khoi_query[n] \in { <<"a">>, <<"b">>, <<"c">>, <<"d">>,
                            <<"A">>, <<"B">>, <<"C">>, <<"D">> }

\* C36: for a query that names no exam group (no code [ABCD]dd and no
\* khoi X phrase) the extractor returns None, and the entities built from
\* the query have no khoi_thi.
C36_NoGroupNoEntity ==
    (/\ khoi_entities # None
     /\ ~C36_HasCode
     /\ ~C36_HasLetter)
    => /\ ExtractKhoiThi(JoinWords(khoi_query)) = None
       /\ "khoi_thi" \notin DOMAIN khoi_entities.v

-----------------------------------------------------------------------------
(* SQL engine: failures of the grader *)

\* C34: when the SQL string passes the basic checks, it is rejected only
\* by an explicit grader verdict valid = false; every failure of the grader
\* check (the call raised, the output is no object, or it lacks valid) lets
\* the string through.
C34_OnlyExplicitVerdictRejects ==
    (val_out # None /\ BasicCheck(val_sql.v) = None)
    => (~val_out.ok <=> /\ val_grader.t = "dict"
                        /\ "valid" \in DOMAIN val_grader.v
                        /\ val_grader.v.valid = FALSE)

-----------------------------------------------------------------------------
(* Smart merging: which of two overlapping chunks is kept *)

\* the accepted list when the loop of merge_chunks_smart takes the k-th
\* reranked chunk as its candidate (k >= 2)
RECURSIVE C35_Before(_)
C35_Before(k) ==
    IF k = 2 THEN <<merge_in[1]>>
    ELSE MergeOne(C35_Before(k - 1), merge_in[k - 1])

\* the loop reaches the k-th reranked chunk
C35_Reached(k) ==
    \A j \in 3..k : Len(C35_Before(j)) < ContextSettings[merge_intent].chunks

\* C35: when a candidate overlaps an accepted chunk, then after the
\* candidate is processed exactly one of the two is accepted, and it is the
\* one with the larger depth (chuong = 1 ... diem = 5); the list returned
\* has at most the intent's max_chunks chunks.
C35_DeeperOfTwoKept ==
    merge_out # None =>
        /\ Len(merge_out.v.merged) <= ContextSettings[merge_intent].chunks
        /\ \A k \in 2..Len(merge_in) :
             C35_Reached(k) =>
                LET chunk == merge_in[k]
                    after == Range(MergeOne(C35_Before(k), chunk))
                IN  \A existing \in Range(C35_Before(k)) :
                        CheckHierarchyOverlap(chunk, existing) =>
                            \/ /\ chunk \in after
                               /\ existing \notin after
                               /\ GetDepth(chunk) > GetDepth(existing)
                            \/ /\ chunk \notin after
                               /\ existing \in after
                               /\ GetDepth(existing) > GetDepth(chunk)

-----------------------------------------------------------------------------
(* Supervisor: the two engines in one run *)

-----------------------------------------------------------------------------
(* Hierarchy navigation: termination *)

\* the parent_id relation of the map has a cycle through the chunk
C38_OnParentCycle(id) ==
    \E i \in NavIds :
        /\ MetaGet(nav_map[id], "parent_id") = i
        /\ MetaGet(nav_map[i], "parent_id") = id

\* C38: on every chunk graph, cycles in parent_id or children_ids
\* included, the parent walk makes at most max_levels passes, the ancestor
\* test at most 5, and the BFS takes each chunk at most once, so that it
\* pops no more ids than the chunks it took and the root list between them.
C38_NavigationBounded ==
    nav_pc # "idle" =>
        /\ nav_steps.parents <= MaxLevels
        /\ Len(nav_parents) <= MaxLevels
        /\ nav_steps.ancestor <= AncestorMaxDepth
        /\ \A m, n \in 1..Len(nav_descendants) :
              m # n => nav_descendants[m] # nav_descendants[n]
        /\ Len(nav_descendants) <= Cardinality(NavIds)
        /\ nav_steps.bfs <= (Cardinality(NavIds) + 1) * MaxChildren

\* a request on a map whose parent_id relation has a cycle through the
\* chunk: the walk took max_levels parents, the ancestor test gave up after
\* 5 passes, and the BFS, whose root is its own descendant, ended
C38_Witness ==
    /\ nav_pc = "done"
    /\ C38_OnParentCycle(nav_chunk)
    /\ Len(nav_parents) = MaxLevels
    /\ nav_steps.ancestor = AncestorMaxDepth
    /\ nav_found = FALSE
    /\ nav_chunk \in Range(nav_descendants)

-----------------------------------------------------------------------------
(* Hierarchy navigation: the chunk map at query time *)

\* C31: processing a query never modifies the chunk map: every stored
\* chunk has exactly the keys and values it had when the build finished.
C31_ChunkMapUnchanged ==
    nav_pc # "idle" =>
        \A i \in DOMAIN nav_built :
            /\ DOMAIN nav_map[i] = DOMAIN nav_built[i]
            /\ \A k \in DOMAIN nav_built[i] : nav_map[i][k] = nav_built[i][k]

-----------------------------------------------------------------------------
(* Supervisor: isolation of the sessions *)

\* every message of the list was submitted under session s
C39_OwnMessages(messages, s) ==
    \A n \in 1..Len(messages) :
        \E q \in SessionQueries[s] : messages[n].content = Str(q)

\* C39: a message submitted under one session_id never appears in the
\* conversation state, in the planner history or in the stored history of a
\* request made under another session_id, however the requests of the
\* sessions interleave.
C39_SessionsIsolated ==
    mem_store # <<>> =>
        \A s \in SessionIds :
            /\ C39_OwnMessages(mem_store[ThreadId(s)], s)
            /\ mem_run[s] # None => C39_OwnMessages(mem_run[s].messages, s)
            /\ mem_seen[s] # None => C39_OwnMessages(mem_seen[s].v, s)
            /\ mem_history[s] # None => C39_OwnMessages(mem_history[s].v, s)

\* a request of s2 started and ended while a request of s1 was running, and
\* each planner saw the messages of its own session
C39_Witness ==
    /\ mem_run["s1"] # None
    /\ mem_run["s1"].node = "agent"
    /\ mem_run["s2"] = None
    /\ mem_seen["s1"] # None
    /\ mem_seen["s2"] # None
    /\ Len(mem_seen["s2"].v) = 2
    /\ Len(mem_store["s1"]) = 2
    /\ mem_history["s2"] # None
    /\ Len(mem_history["s2"].v) = 2
====
